---- MODULE Spec2Model ----
(***************************************************************************)
(* A model of two PlasmaPy modules:                                        *)
(*                                                                         *)
(*   plasmapy/dispersion/numerical/stix_.py      stix                      *)
(*   plasmapy/formulary/collisions/timescales.py validate, Hellinger,      *)
(*                                               Hellinger_2009/2010/2016  *)
(*                                                                         *)
(* A behaviour of Spec is a call of stix, followed for a scalar density by *)
(* the call with the density written out as an array; a behaviour of SpecH *)
(* is one call of Hellinger.  The arguments of the call are drawn in the   *)
(* initial state; every action is one block of the function body, in       *)
(* source order.                                                           *)
(*                                                                         *)
(* Numbers.  The floats of stix are IEEE 754 doubles, kept exactly as      *)
(* s * m * 2^e, and every operation of stix on them is rounded as the      *)
(* hardware rounds it: sqrt(2) ** 2 is 2.0000000000000004 and              *)
(* cos(pi / 2) ** 2 is 3.749399456654644e-33.  A double has one zero here; *)
(* -0.0 and 0.0 are equal for every test stix and numpy make.  The         *)
(* arguments of a call hold small integers.  The quantities of the         *)
(* Hellinger functions hold rationals <<num, den>>.                        *)
(*                                                                         *)
(* Angles in radians are counted in units of pi/12, so that 30 deg = 2,    *)
(* 45 deg = 3, 90 deg = 6; the key t stands for the double nearest to      *)
(* t * pi/12.  Physical quantities are in a unit system where the          *)
(* elementary charge, the vacuum permittivity and the electron mass are 1  *)
(* and the speed of light has the value c_si_unitless below.               *)
(***************************************************************************)
EXTENDS Integers, Sequences, FiniteSets, TLC

(***************************************************************************)
(* Bounds of the model.                                                    *)
(***************************************************************************)
\* longest list of ions passed to stix
MaxIons == 2
\* longest 1-D array of angles passed to stix
MaxAngles == 3

(***************************************************************************)
(* Generic helpers.                                                        *)
(***************************************************************************)
None == "None"

Abs(x) == IF x < 0 THEN -x ELSE x

RECURSIVE Gcd(_, _)
Gcd(a, b) == IF b = 0 THEN a ELSE Gcd(b, a % b)

Range(s) == {s[j] : j \in 1..Len(s)}


\* [x] * n
Repeat(x, n) == [j \in 1..n |-> x]

\* all sequences over S of length lo..hi
SeqsOf(S, lo, hi) == UNION {[1..n -> S] : n \in lo..hi}

SetMin(T) == CHOOSE x \in T : \A y \in T : x <= y
SetMax(T) == CHOOSE x \in T : \A y \in T : x >= y

IntCmp(x, y) == IF x < y THEN -1 ELSE IF x > y THEN 1 ELSE 0

(***************************************************************************)
(* Rational arithmetic, for the small exact numbers of the arguments.      *)
(***************************************************************************)
Rat(n, d) ==
    LET g == Gcd(Abs(n), Abs(d))
        s == IF d < 0 THEN -1 ELSE 1
    IN  <<(s * n) \div g, (s * d) \div g>>

RInt(n) == <<n, 1>>
RAdd(x, y) ==
    LET g == Gcd(x[2], y[2])
    IN  Rat(x[1] * (y[2] \div g) + y[1] * (x[2] \div g), (x[2] \div g) * y[2])
RMul(x, y) ==
    LET g1 == Gcd(Abs(x[1]), y[2])
        g2 == Gcd(Abs(y[1]), x[2])
    IN  Rat((x[1] \div g1) * (y[1] \div g2), (x[2] \div g2) * (y[2] \div g1))
\* x / y, for y # 0
RDiv(x, y) ==
    RMul(x, IF y[1] > 0 THEN Rat(y[2], y[1]) ELSE Rat(-y[2], -y[1]))
RSign(x) == IF x[1] > 0 THEN 1 ELSE IF x[1] < 0 THEN -1 ELSE 0
RIsZero(x) == x[1] = 0

(***************************************************************************)
(* Natural numbers of any size: the sequence of their digits in base 2^15, *)
(* least significant first, without leading zero digits; <<>> is 0.        *)
(***************************************************************************)
LimbBits == 15
LimbBase == 32768

Pow2(n) ==
    <<1, 2, 4, 8, 16, 32, 64, 128, 256, 512, 1024, 2048, 4096, 8192,
      16384>>[n + 1]

RECURSIVE NNorm(_)
NNorm(a) ==
    IF a = <<>> THEN <<>>
    ELSE IF a[Len(a)] = 0 THEN NNorm(SubSeq(a, 1, Len(a) - 1))
    ELSE a

RECURSIVE NOfInt(_)
NOfInt(n) ==
    IF n = 0 THEN <<>> ELSE <<n % LimbBase>> \o NOfInt(n \div LimbBase)

NLimb(a, j) == IF j <= Len(a) THEN a[j] ELSE 0

NAdd(a, b) ==
    LET RECURSIVE AddFrom(_, _)
        AddFrom(j, carry) ==
            IF j > Len(a) /\ j > Len(b)
            THEN IF carry = 0 THEN <<>> ELSE <<carry>>
            ELSE LET x == NLimb(a, j) + NLimb(b, j) + carry
                 IN  <<x % LimbBase>> \o AddFrom(j + 1, x \div LimbBase)
    IN  AddFrom(1, 0)

\* a - b, for a >= b
NSub(a, b) ==
    LET RECURSIVE SubFrom(_, _)
        SubFrom(j, borrow) ==
            IF j > Len(a) THEN <<>>
            ELSE LET x == a[j] - NLimb(b, j) - borrow
                 IN  IF x < 0
                     THEN <<x + LimbBase>> \o SubFrom(j + 1, 1)
                     ELSE <<x>> \o SubFrom(j + 1, 0)
    IN  NNorm(SubFrom(1, 0))

\* -1, 0, 1 as a is below, equal to, above b
NCmp(a, b) ==
    LET RECURSIVE CmpFrom(_)
        CmpFrom(j) ==
            IF j = 0 THEN 0
            ELSE IF a[j] < b[j] THEN -1
            ELSE IF a[j] > b[j] THEN 1
            ELSE CmpFrom(j - 1)
    IN  IF Len(a) < Len(b) THEN -1
        ELSE IF Len(a) > Len(b) THEN 1
        ELSE CmpFrom(Len(a))

\* a * d, for a digit d
NMulLimb(a, d) ==
    LET RECURSIVE MulFrom(_, _)
        MulFrom(j, carry) ==
            IF j > Len(a)
            THEN IF carry = 0 THEN <<>> ELSE <<carry>>
            ELSE LET x == a[j] * d + carry
                 IN  <<x % LimbBase>> \o MulFrom(j + 1, x \div LimbBase)
    IN  IF d = 0 THEN <<>> ELSE IF d = 1 THEN a ELSE MulFrom(1, 0)

\* a * b, one digit of b at a time from its high end: MulAddFrom is
\* acc + t * d from digit j on, MulFrom is a * (b[j] + b[j + 1] * 2^15 + ...)
NMul(a, b) ==
    LET RECURSIVE MulAddFrom(_, _, _, _, _)
        MulAddFrom(t, d, acc, j, carry) ==
            IF j > Len(t) /\ j > Len(acc)
            THEN IF carry = 0 THEN <<>> ELSE <<carry>>
            ELSE LET x == NLimb(t, j) * d + NLimb(acc, j) + carry
                 IN  <<x % LimbBase>>
                         \o MulAddFrom(t, d, acc, j + 1, x \div LimbBase)
        RECURSIVE MulFrom(_)
        MulFrom(j) ==
            IF j = Len(b) THEN NMulLimb(a, b[j])
            ELSE <<(a[1] * b[j]) % LimbBase>>
                     \o MulAddFrom(Tail(a), b[j], MulFrom(j + 1), 1,
                                   (a[1] * b[j]) \div LimbBase)
    IN  IF a = <<>> \/ b = <<>> THEN <<>> ELSE MulFrom(1)

\* <<quotient, remainder>> of a by the digit d > 0
NDivLimb(a, d) ==
    LET RECURSIVE DivFrom(_, _)
        DivFrom(j, rem) ==
            IF j = 0 THEN <<<<>>, rem>>
            ELSE LET x == rem * LimbBase + a[j]
                     rest == DivFrom(j - 1, x % d)
                 IN  <<Append(rest[1], x \div d), rest[2]>>
    IN  IF d = 1 THEN <<a, <<>>>>
        ELSE LET qr == DivFrom(Len(a), 0)
             IN  <<NNorm(qr[1]), NOfInt(qr[2])>>

\* a * 2^n
NShl(a, n) ==
    IF a = <<>> THEN <<>>
    ELSE [j \in 1..(n \div LimbBits) |-> 0] \o NMulLimb(a, Pow2(n % LimbBits))

\* floor(a / 2^n)
NShr(a, n) ==
    IF n \div LimbBits >= Len(a) THEN <<>>
    ELSE NDivLimb(SubSeq(a, n \div LimbBits + 1, Len(a)),
                  Pow2(n % LimbBits))[1]

\* the number of binary digits of a
NBitLen(a) ==
    LET RECURSIVE BitLen(_)
        BitLen(x) == IF x = 0 THEN 0 ELSE 1 + BitLen(x \div 2)
    IN  IF a = <<>> THEN 0
        ELSE LimbBits * (Len(a) - 1) + BitLen(a[Len(a)])

\* binary digit n of a, counted from 0
NBit(a, n) == (NLimb(a, n \div LimbBits + 1) \div Pow2(n % LimbBits)) % 2

(***************************************************************************)
(* Dyadic numbers s * m * 2^e: the sign s in {-1, 0, 1}, the odd natural   *)
(* number m and the exponent e; every double is one.  DAdd, DSub and DMul  *)
(* are exact.                                                              *)
(***************************************************************************)
DZero == [s |-> 0, m |-> <<>>, e |-> 0]

\* s * m * 2^e with the zero binary digits at the low end of m moved into
\* the exponent
Dyadic(s, m, e) ==
    LET RECURSIVE ZeroBits(_)
        ZeroBits(x) == IF x % 2 = 1 THEN 0 ELSE 1 + ZeroBits(x \div 2)
        RECURSIVE ZerosFrom(_)
        ZerosFrom(j) ==
            IF m[j] = 0 THEN LimbBits + ZerosFrom(j + 1) ELSE ZeroBits(m[j])
    IN  IF s = 0 \/ m = <<>> THEN DZero
        ELSE IF m[1] % 2 = 1 THEN [s |-> s, m |-> m, e |-> e]
        ELSE [s |-> s, m |-> NShr(m, ZerosFrom(1)), e |-> e + ZerosFrom(1)]

DInt(n) == Dyadic(IF n > 0 THEN 1 ELSE IF n < 0 THEN -1 ELSE 0,
                  NOfInt(Abs(n)), 0)
DNeg(x) == [x EXCEPT !.s = -x.s]

DMul(x, y) ==
    IF x.s = 0 \/ y.s = 0 THEN DZero
    ELSE [s |-> x.s * y.s, m |-> NMul(x.m, y.m), e |-> x.e + y.e]

DAdd(x, y) ==
    IF x.s = 0 THEN y
    ELSE IF y.s = 0 THEN x
    ELSE LET e == IF x.e < y.e THEN x.e ELSE y.e
             mx == NShl(x.m, x.e - e)
             my == NShl(y.m, y.e - e)
             c == NCmp(mx, my)
         IN  IF x.s = y.s THEN Dyadic(x.s, NAdd(mx, my), e)
             ELSE IF c = 0 THEN DZero
             ELSE IF c > 0 THEN Dyadic(x.s, NSub(mx, my), e)
             ELSE Dyadic(y.s, NSub(my, mx), e)

DSub(x, y) == DAdd(x, DNeg(y))

\* -1, 0, 1 as x is below, equal to, above y
DCmp(x, y) == DSub(x, y).s

(***************************************************************************)
(* IEEE 754 double arithmetic: every operation gives the double nearest to *)
(* the exact result, a tie going to the even mantissa.  The numbers of the *)
(* model are far from the overflow and underflow thresholds.               *)
(***************************************************************************)
MantissaBits == 53

\* the double nearest to the dyadic number x
fl(x) ==
    LET sh == NBitLen(x.m) - MantissaBits
    IN  IF sh <= 0 THEN x
        ELSE LET q == NShr(x.m, sh)
                 up == /\ NBit(x.m, sh - 1) = 1
                       /\ (sh > 1 \/ q[1] % 2 = 1)
             IN  Dyadic(x.s, IF up THEN NAdd(q, <<1>>) ELSE q, x.e + sh)

FAdd(x, y) == fl(DAdd(x, y))
FSub(x, y) == fl(DSub(x, y))
FMul(x, y) == fl(DMul(x, y))
\* x ** 2
FSq(x) == FMul(x, x)

\* x / y for y # 0: the quotient of the mantissas to 56 binary digits or
\* more, and one more digit that tells whether a remainder is left
FDiv(x, y) ==
    LET \* <<quotient, remainder>> of a by b # 0: by a digit, or long
        \* division, one binary digit of a per step from digit n down
        NDivMod(a, b) ==
            LET RECURSIVE DivModFrom(_, _, _)
                DivModFrom(n, q, r) ==
                    IF n < 0 THEN <<q, r>>
                    ELSE LET r2 == NAdd(NAdd(r, r),
                                        IF NBit(a, n) = 1 THEN <<1>> ELSE <<>>)
                         IN  IF Len(q) >= 0 /\ NCmp(r2, b) >= 0
                             THEN DivModFrom(n - 1, NAdd(NAdd(q, q), <<1>>),
                                             NSub(r2, b))
                             ELSE DivModFrom(n - 1, NAdd(q, q), r2)
            IN  IF Len(b) = 1 THEN NDivLimb(a, b[1])
                ELSE LET n == NBitLen(a) - NBitLen(b) + 1
                     IN  IF n <= 0 THEN <<<<>>, a>>
                         ELSE DivModFrom(n - 1, <<>>, NShr(a, n))
    IN  IF x.s = 0 THEN DZero
        ELSE LET n == MantissaBits + 3 + NBitLen(y.m) - NBitLen(x.m)
                 sh == IF n > 0 THEN n ELSE 0
                 qr == NDivMod(NShl(x.m, sh), y.m)
                 e == x.e - y.e - sh
             IN  IF qr[2] = <<>>
                 THEN fl(Dyadic(x.s * y.s, qr[1], e))
                 ELSE fl(Dyadic(x.s * y.s, NAdd(NShl(qr[1], 1), <<1>>),
                                e - 1))

\* the doubles nearest to sqrt(n) for n = 1, ..., 20
FSqrt_known ==
    <<DInt(1),
      [s |-> 1, m |-> <<15309, 19710, 633, 181>>, e |-> -52],     \* 1.4142135623730951
      [s |-> 1, m |-> <<9813, 26712, 27893, 110>>, e |-> -51],    \* 1.7320508075688772
      DInt(2),
      [s |-> 1, m |-> <<32405, 26341, 29115, 17>>, e |-> -48],    \* 2.23606797749979
      [s |-> 1, m |-> <<4247, 5129, 12572, 78>>, e |-> -50],      \* 2.449489742783178
      [s |-> 1, m |-> <<31861, 10706, 21759, 84>>, e |-> -50],    \* 2.6457513110645907
      [s |-> 1, m |-> <<15309, 19710, 633, 181>>, e |-> -51],     \* 2.8284271247461903
      DInt(3),
      [s |-> 1, m |-> <<23379, 30132, 12640, 202>>, e |-> -51],   \* 3.1622776601683795
      [s |-> 1, m |-> <<23501, 18942, 2162, 53>>, e |-> -49],     \* 3.3166247903554
      [s |-> 1, m |-> <<9813, 26712, 27893, 110>>, e |-> -50],    \* 3.4641016151377544
      [s |-> 1, m |-> <<23027, 2242, 24749, 230>>, e |-> -51],    \* 3.605551275463989
      [s |-> 1, m |-> <<16201, 8912, 15272, 239>>, e |-> -51],    \* 3.7416573867739413
      [s |-> 1, m |-> <<10093, 12623, 30653, 123>>, e |-> -50],   \* 3.872983346207417
      DInt(4),
      [s |-> 1, m |-> <<27911, 19807, 30781, 131>>, e |-> -50],   \* 4.123105625617661
      [s |-> 1, m |-> <<27865, 6590, 25051, 135>>, e |-> -50],    \* 4.242640687119285
      [s |-> 1, m |-> <<19961, 26824, 15884, 139>>, e |-> -50],   \* 4.358898943540674
      [s |-> 1, m |-> <<32405, 26341, 29115, 17>>, e |-> -47]>>   \* 4.47213595499958

\* sqrt(x) for x >= 0: from the table, or digit by digit
FSqrt(x) ==
    LET \* <<s, a - s^2>> for s = floor(sqrt(a)): the square root digit by digit,
        \* two binary digits of a per step
        NSqrt(a) ==
            LET RECURSIVE SqrtFrom(_, _, _)
                SqrtFrom(n, s, r) ==
                    IF n < 0 THEN <<s, r>>
                    ELSE LET r2 == NAdd(NShl(r, 2),
                                        NOfInt(2 * NBit(a, 2 * n + 1)
                                                   + NBit(a, 2 * n)))
                             t == NAdd(NShl(s, 2), <<1>>)
                         IN  IF NCmp(r2, t) >= 0
                             THEN SqrtFrom(n - 1, NAdd(NAdd(s, s), <<1>>),
                                           NSub(r2, t))
                             ELSE SqrtFrom(n - 1, NAdd(s, s), r2)
            IN  SqrtFrom((NBitLen(a) + 1) \div 2 - 1, <<>>, <<>>)
    IN  IF x.s = 0 THEN DZero
        ELSE IF x.e \in 0..4 /\ Len(x.m) = 1 /\ x.m[1] * Pow2(x.e) <= 20
        THEN FSqrt_known[x.m[1] * Pow2(x.e)]
        ELSE LET n0 == 2 * MantissaBits + 6 - NBitLen(x.m)
                 n1 == IF n0 > 0 THEN n0 ELSE 0
                 sh == IF (x.e - n1) % 2 = 0 THEN n1 ELSE n1 + 1
                 sr == NSqrt(NShl(x.m, sh))
                 e == (x.e - sh) \div 2
             IN  IF sr[2] = <<>>
                 THEN fl(Dyadic(1, sr[1], e))
                 ELSE fl(Dyadic(1, NAdd(NShl(sr[1], 1), <<1>>), e - 1))

\* The sine and the cosine of the double nearest to t * pi/12, for the
\* angles 0, 30, 45, 60 and 90 deg (t = 0, 2, 3, 4, 6).  The double nearest
\* to pi/2 is not pi/2 and its cosine is 6.123233995736766e-17, not 0.
sin_double(t) ==
    CASE t = 0 -> DZero
      [] t = 2 -> [s |-> 1, m |-> <<32767, 32767, 32767, 255>>, e |-> -54]   \* 0.49999999999999994
      [] t = 3 -> [s |-> 1, m |-> <<20211, 13119, 8350, 45>>, e |-> -51]     \* 0.7071067811865475
      [] t = 4 -> [s |-> 1, m |-> <<9813, 26712, 27893, 110>>, e |-> -52]    \* 0.8660254037844386
      [] t = 6 -> DInt(1)

cos_double(t) ==
    CASE t = 0 -> DInt(1)
      [] t = 2 -> [s |-> 1, m |-> <<19627, 20656, 23019, 221>>, e |-> -53]   \* 0.8660254037844387
      [] t = 3 -> [s |-> 1, m |-> <<15309, 19710, 633, 181>>, e |-> -53]     \* 0.7071067811865476
      [] t = 4 -> [s |-> 1, m |-> <<1, 0, 0, 128>>, e |-> -53]               \* 0.5000000000000001
      [] t = 6 -> [s |-> 1, m |-> <<23559, 26152, 6296, 141>>, e |-> -106]   \* 6.123233995736766e-17

(***************************************************************************)
(* astropy Quantity / numpy ndarray: a unit, a shape and the flat data.    *)
(* A plain ndarray carries the unit "none".                                *)
(***************************************************************************)
Quantity(unit, shape, data) == [unit |-> unit, shape |-> shape, data |-> data]
ndarray(data) == Quantity("none", <<Len(data)>>, data)

ndim(q) == Len(q.shape)
size(q) ==
    LET RECURSIVE Prod(_)
        Prod(s) == IF s = <<>> THEN 1 ELSE Head(s) * Prod(Tail(s))
    IN  Prod(q.shape)

\* ndarray.squeeze(): drop the axes of length 1
squeeze(q) == [q EXCEPT !.shape = SelectSeq(q.shape, LAMBDA d : d # 1)]

\* np.isscalar(q.value): the value of a 0-d Quantity is a numpy scalar
isscalar_value(q) == ndim(q) = 0

\* Quantity.to(u.radian).  Radians are counted in units of pi/12, and
\* 1 deg = pi/180 rad = (1/15) * (pi/12) rad.
to_radian(q) ==
    IF q.unit = "deg"
    THEN [q EXCEPT !.unit = "rad",
                   !.data = [j \in 1..Len(q.data) |-> q.data[j] \div 15]]
    ELSE q


(***************************************************************************)
(* plasmapy.particles: the particles the model draws from, with the        *)
(* attributes stix and validate.ions read.  The masses are scaled to small *)
(* integers (electron 1, hydrogen 1, helium 2); stix itself never reads a  *)
(* mass.                                                                   *)
(***************************************************************************)
Electron == "e-"
Particles == {"p+", "He-4 2+", "He-4 0+", "e-", "H 1-"}

charge_number(p) ==
    CASE p = "p+" -> 1
      [] p = "He-4 2+" -> 2
      [] p = "He-4 0+" -> 0
      [] p = "e-" -> -1
      [] p = "H 1-" -> -1

\* Particle.is_ion: an element or isotope with a nonzero charge
is_ion(p) == p \in {"p+", "He-4 2+", "H 1-"}

mass(p) ==
    CASE p = "p+" -> 1
      [] p = "He-4 2+" -> 2
      [] p = "He-4 0+" -> 2
      [] p = "e-" -> 1
      [] p = "H 1-" -> 1


(***************************************************************************)
(* plasmapy.formulary.frequencies:                                         *)
(*    wp = sqrt(n Z^2 e^2 / (eps0 m)),   wc = |Z| e B / m                  *)
(***************************************************************************)
plasma_frequency(n, particle) ==
    FSqrt(FDiv(DInt(n[1] * charge_number(particle) * charge_number(particle)),
               DInt(n[2] * mass(particle))))

gyrofrequency(Bval, particle) ==
    FDiv(DInt(Abs(charge_number(particle)) * Bval), DInt(mass(particle)))

\* astropy.constants.si.c.value in the model's units
c_si_unitless == 2

(***************************************************************************)
(* Exceptions.  cls is the Python class, kind the error of the taxonomy    *)
(* (species, shape, sign, ...), arg the argument or local it is about.     *)
(***************************************************************************)
Exception(cls, kind, arg) == [cls |-> cls, kind |-> kind, arg |-> arg]

NoException == Exception("None", "None", "None")

\* a Python dict: the bound flag is FALSE while the local name is not
\* assigned yet; items are the entries in insertion order
UnboundDict == [bound |-> FALSE, items |-> <<>>]
EmptyDict == [bound |-> TRUE, items |-> <<>>]

DictKeys(d) == {d.items[j].key : j \in 1..Len(d.items)}

\* a faulty d[key] = val that moves an assigned key to the end
DictSet_reinsert(d, key, val) ==
    [d EXCEPT !.items =
        Append(SelectSeq(d.items, LAMBDA e : e.key # key),
               [key |-> key, val |-> val])]

\* d[key] = val: a new key is appended, an existing key keeps its place
DictSet(d, key, val) ==
    IF key \in DictKeys(d)
    THEN [d EXCEPT !.items = [j \in 1..Len(d.items) |->
                                 IF d.items[j].key = key
                                 THEN [key |-> key, val |-> val]
                                 ELSE d.items[j]]]
    ELSE [d EXCEPT !.items = Append(d.items, [key |-> key, val |-> val])]

DictGet(d, key) ==
    (CHOOSE e \in Range(d.items) : e.key = key).val

(***************************************************************************)
(* The arguments a call of stix is given.                                  *)
(***************************************************************************)
Scalar(unit, v) == Quantity(unit, <<>>, <<v>>)
Array1(unit, data) == Quantity(unit, <<Len(data)>>, data)

\* B: negative, positive, a 1-element array (zero field), a 2-element array
BArgs ==
    {Scalar("T", -1), Scalar("T", 1),
     Quantity("T", <<1>>, <<0>>), Quantity("T", <<2>>, <<1, 1>>)}

wArgs ==
    {Scalar("rad/s", v) : v \in {-1, 0, 1}}
        \cup {Quantity("rad/s", <<1, 1>>, <<3>>),
              Quantity("rad/s", <<2>>, <<1, 2>>),
              Quantity("rad/s", <<2, 2>>, <<1, 2, 1, 2>>)}

\* n_i: a scalar, a 1-D array of one density for every ion, a 1-D array of
\* densities 1 with one density 2, a 2-D array
n_iArgs ==
    {Scalar("m-3", v) : v \in {-1, 0, 1, 2}}
        \cup {Array1("m-3", Repeat(v, n)) :
                v \in {-1, 0, 1, 2}, n \in 1..MaxIons}
        \cup UNION {{Array1("m-3", [j \in 1..n |-> IF j = pos THEN 2 ELSE 1]) :
                        pos \in 1..n} : n \in 1..MaxIons}
        \cup {Quantity("m-3", <<1, 1>>, <<1>>)}

\* theta: a scalar, a 1-element array, 1-D arrays of the greatest length in
\* which the angles 30 and 90 deg alternate, a 2-D array
thetaArgs ==
    {Scalar("deg", v) : v \in {0, 30, 90}}
        \cup {Scalar("rad", 2), Quantity("deg", <<1>>, <<30>>)}
        \cup {Array1("deg", [j \in 1..MaxAngles |-> IF j % 2 = 1 THEN a ELSE 120 - a]) :
                a \in {30, 90}}
        \cup {Quantity("deg", <<2, 2>>, <<0, 30, 30, 90>>)}

\* ions is one particle (list = FALSE) or a list of particles: a list of
\* protons, or a list of protons with one other particle at some position
ionsArgs ==
    {[list |-> FALSE, items |-> <<p>>] : p \in Particles}
        \cup {[list |-> TRUE, items |-> l] : l \in SeqsOf({"p+"}, 0, MaxIons)}
        \cup UNION {{[list |-> TRUE,
                      items |-> [j \in 1..n |-> IF j = pos THEN p ELSE "p+"]] :
                        pos \in 1..n, p \in Particles \ {"p+"}} :
                     n \in 1..MaxIons}

\* calls at a cutoff, where P is 0.0: 6 rad/s is the cutoff frequency of
\* two proton populations of densities 8 and 10 with their 18 electrons
CutoffArgs ==
    [B : {Scalar("T", 1)}, w : {Scalar("rad/s", 6)},
     ions : {[list |-> TRUE, items |-> <<"p+", "p+">>]},
     n_i : {Array1("m-3", <<8, 10>>)}, theta : thetaArgs]

StixArgs ==
    [B : BArgs, w : wArgs, ions : ionsArgs, n_i : n_iArgs, theta : thetaArgs]
        \cup CutoffArgs

(***************************************************************************)
(* State of one call of stix.  The locals keep their source names; B is    *)
(* first the magnetic field and later the list of B coefficients, as in    *)
(* the source.                                                             *)
(***************************************************************************)
VARIABLES
    args,           \* the arguments of the call, as passed
    pc,             \* the block of stix that runs next
    B, w, ions, n_i, theta,
    species, densities,
    wps, wcs,
    S, P, D, R, L,
    A, C,
    i, coefficients, k,
    numpy_ragged,   \* what np.roots does with a list of 1-element arrays
    lapack,         \* per list solved, how the eigenvalues came out
    calls,          \* calls of plasma_frequency and gyrofrequency made so far
    solves,         \* np.roots calls made so far
    passed,         \* in-body validation blocks that have passed
    err,            \* the exception raised to the caller, or None
    ret,            \* the returned dictionary, or None
    previous        \* the call made before this one, with what it built

stix_locals ==
    <<B, w, ions, n_i, theta, species, densities, wps, wcs, S, P, D, R, L,
      A, C, i, coefficients, k>>

stix_vars ==
    <<args, pc, stix_locals, numpy_ragged, lapack, calls, solves, passed,
      err, ret, previous>>

(***************************************************************************)
(* State of one call of Hellinger(inputs, version).                        *)
(***************************************************************************)
VARIABLES
    h_version,      \* the version argument: [type, value]
    h_inputs,       \* the inputs argument: [keys, vals]
    h_stack,        \* call stack below Hellinger: frames [fn, step, locals]
    h_pc,           \* "idle", "Hellinger", "running", "done" or "raised"
    h_called,       \* the calls made so far: [fn, caller], in order
    h_validated,    \* the validators that have run: [fn, validator, arg]
    h_err,          \* the exception raised to the caller of Hellinger
    h_ret           \* what Hellinger returned

hellinger_vars ==
    <<h_version, h_inputs, h_stack, h_pc, h_called, h_validated, h_err, h_ret>>

vars == <<stix_vars, hellinger_vars>>


NoReturn == [returned |-> FALSE, value |-> EmptyDict]

\* no call of Hellinger is in progress
HellingerIdle ==
    /\ h_version = [type |-> "int", value |-> RInt(0)]
    /\ h_inputs = [keys |-> {}]
    /\ h_stack = <<>>
    /\ h_pc = "idle"
    /\ h_called = <<>>
    /\ h_validated = <<>>
    /\ h_err = NoException
    /\ h_ret = [returned |-> FALSE, value |-> "None"]

\* the locals of stix when the call starts
StixStart ==
    /\ B = args.B
    /\ w = args.w
    /\ ions = args.ions
    /\ n_i = args.n_i
    /\ theta = args.theta
    /\ species = <<>>
    /\ densities = <<>>
    /\ wps = <<>>
    /\ wcs = <<>>
    /\ S = DZero /\ P = DZero /\ D = DZero /\ R = DZero /\ L = DZero
    /\ A = <<>>
    /\ C = <<>>
    /\ i = 0
    /\ coefficients = <<>>
    /\ k = UnboundDict
    /\ numpy_ragged = "unknown"
    /\ lapack = <<>>
    /\ calls = <<>>
    /\ solves = 0
    /\ passed = {}
    /\ err = NoException
    /\ ret = NoReturn

\* no call was made before this one
NoPrevious ==
    [called |-> FALSE, args |-> args, n_i |-> args.n_i, densities |-> <<>>,
     outcome |-> [err |-> NoException, ret |-> NoReturn]]

Init ==
    /\ HellingerIdle
    /\ args \in StixArgs
    /\ pc = "validate_quantities"
    /\ StixStart
    /\ previous = NoPrevious

\* raise e: the call ends, nothing is returned
Raise(e) ==
    /\ pc' = "raised"
    /\ err' = e
    /\ UNCHANGED ret

(***************************************************************************)
(* @validate_quantities(B, n_i, w: can_be_negative False)                  *)
(***************************************************************************)
AnyNegative(q) == \E j \in 1..Len(q.data) : q.data[j] < 0

validate_quantities_error(a) ==
    IF AnyNegative(a.B) THEN Exception("ValueError", "sign", "B")
    ELSE IF AnyNegative(a.w) THEN Exception("ValueError", "sign", "w")
    ELSE IF AnyNegative(a.n_i) THEN Exception("ValueError", "sign", "n_i")
    ELSE NoException

validate_quantities ==
    /\ pc = "validate_quantities"
    /\ IF validate_quantities_error(args) # NoException
       THEN /\ Raise(validate_quantities_error(args))
            /\ UNCHANGED passed
       ELSE /\ pc' = "ions"
            /\ passed' = passed \cup {"validate_quantities"}
            /\ UNCHANGED <<err, ret>>
    /\ UNCHANGED <<previous, hellinger_vars>>
    /\ UNCHANGED <<args, stix_locals, numpy_ragged, lapack, calls, solves>>

(***************************************************************************)
(* # Validate ions argument                                                *)
(***************************************************************************)
\* ParticleList(ions), after wrapping a single particle in a list
ParticleList(x) == [list |-> TRUE, items |-> x.items]

\* a faulty test that takes any charged ion, as validate.ions of
\* timescales.py does
positively_charged_ion_abs(ion) == is_ion(ion) /\ Abs(charge_number(ion)) > 0

\* ion.is_ion and ion.charge_number > 0
positively_charged_ion(ion) == is_ion(ion) /\ charge_number(ion) > 0

\* the list "failed" of the source: TRUE for the particles that are allowed
failed(il) == [j \in 1..Len(il.items) |-> positively_charged_ion(il.items[j])]

all(bl) == \A j \in 1..Len(bl) : bl[j]

\* a faulty ions block that tests the shape of n_i before the particles
ValidateIons_after_n_i ==
    /\ pc = "ions"
    /\ ions' = ParticleList(ions)
    /\ IF \/ ndim(n_i) \notin {0, 1}
          \/ ndim(n_i) = 1 /\ size(n_i) # Len(ions'.items)
       THEN /\ Raise(Exception("ValueError", "shape", "n_i"))
            /\ UNCHANGED passed
       ELSE IF ~all(failed(ions'))
       THEN /\ Raise(Exception("ValueError", "species", "ions"))
            /\ UNCHANGED passed
       ELSE /\ pc' = "n_i"
            /\ passed' = passed \cup {"ions"}
            /\ UNCHANGED <<err, ret>>
    /\ UNCHANGED <<previous, hellinger_vars>>
    /\ UNCHANGED <<args, B, w, n_i, theta, species, densities, wps, wcs,
                   S, P, D, R, L, A, C, i, coefficients, k,
                   numpy_ragged, lapack, calls, solves>>

ValidateIons ==
    /\ pc = "ions"
    /\ ions' = ParticleList(ions)
    /\ IF ~all(failed(ions'))
       THEN /\ Raise(Exception("ValueError", "species", "ions"))
            /\ UNCHANGED passed
       ELSE /\ pc' = "n_i"
            /\ passed' = passed \cup {"ions"}
            /\ UNCHANGED <<err, ret>>
    /\ UNCHANGED <<previous, hellinger_vars>>
    /\ UNCHANGED <<args, B, w, n_i, theta, species, densities, wps, wcs,
                   S, P, D, R, L, A, C, i, coefficients, k,
                   numpy_ragged, lapack, calls, solves>>

(***************************************************************************)
(* # Validate n_i argument                                                 *)
(***************************************************************************)
\* a faulty test that only compares the length of a 1-D n_i
n_i_shape_error_length_only(q, il) ==
    ndim(q) = 1 /\ size(q) # Len(il.items)

n_i_shape_error(q, il) ==
    \/ ndim(q) \notin {0, 1}
    \/ ndim(q) = 1 /\ size(q) # Len(il.items)

ValidateNi ==
    /\ pc = "n_i"
    /\ IF n_i_shape_error(n_i, ions)
       THEN /\ Raise(Exception("ValueError", "shape", "n_i"))
            /\ UNCHANGED passed
       ELSE /\ pc' = "densities"
            /\ passed' = passed \cup {"n_i"}
            /\ UNCHANGED <<err, ret>>
    /\ UNCHANGED <<previous, hellinger_vars>>
    /\ UNCHANGED <<args, stix_locals, numpy_ragged, lapack, calls, solves>>

\* a faulty broadcast that gives the scalar density to the first ion only
broadcast_n_i_first(q, il) ==
    IF ndim(q) = 0
    THEN ndarray([j \in 1..Len(il.items) |-> IF j = 1 THEN q.data[1] ELSE 0])
    ELSE IF size(q) = 1
    THEN ndarray(Repeat(q.data[1], Len(il.items)))
    ELSE ndarray(q.data)

\* n_i = n_i.value, then the broadcast of a single value to every ion
broadcast_n_i(q, il) ==
    IF ndim(q) = 0
    THEN ndarray(Repeat(q.data[1], Len(il.items)))
    ELSE IF size(q) = 1
    THEN ndarray(Repeat(q.data[1], Len(il.items)))
    ELSE ndarray(q.data)

RECURSIVE Sum(_)
Sum(sq) == IF sq = <<>> THEN 0 ELSE Head(sq) + Sum(Tail(sq))

\* a faulty product that leaves out the charge number
times_charge_number_unweighted(nd, il) ==
    [j \in 1..Len(nd.data) |-> nd.data[j]]

\* n_i * ions.charge_number
times_charge_number(nd, il) ==
    [j \in 1..Len(nd.data) |-> nd.data[j] * charge_number(il.items[j])]

\* densities[:-1] = n_i; densities[-1] = np.sum(n_i * ions.charge_number)
build_densities(nd, il) ==
    Append(nd.data, Sum(times_charge_number(nd, il)))

BuildDensities ==
    /\ pc = "densities"
    /\ n_i' = broadcast_n_i(n_i, ions)
    /\ species' = Append(ions.items, Electron)
    /\ densities' = build_densities(n_i', ions)
    /\ pc' = "B"
    /\ UNCHANGED <<previous, hellinger_vars>>
    /\ UNCHANGED <<args, B, w, ions, theta, wps, wcs, S, P, D, R, L, A, C,
                   i, coefficients, k, numpy_ragged, lapack, calls, solves, passed,
                   err, ret>>


(***************************************************************************)
(* # Validate B argument                                                   *)
(***************************************************************************)
\* a faulty B block that squeezes B but never tests its dimension
ValidateB_unchecked ==
    /\ pc = "B"
    /\ B' = squeeze(B)
    /\ pc' = "w"
    /\ passed' = passed
    /\ UNCHANGED <<err, ret>>
    /\ UNCHANGED <<previous, hellinger_vars>>
    /\ UNCHANGED <<args, w, ions, n_i, theta, species, densities, wps, wcs,
                   S, P, D, R, L, A, C, i, coefficients, k,
                   numpy_ragged, lapack, calls, solves>>

ValidateB ==
    /\ pc = "B"
    /\ B' = squeeze(B)
    /\ IF ndim(B') # 0
       THEN /\ Raise(Exception("ValueError", "shape", "B"))
            /\ UNCHANGED passed
       ELSE /\ pc' = "w"
            /\ passed' = passed \cup {"B"}
            /\ UNCHANGED <<err, ret>>
    /\ UNCHANGED <<previous, hellinger_vars>>
    /\ UNCHANGED <<args, w, ions, n_i, theta, species, densities, wps, wcs,
                   S, P, D, R, L, A, C, i, coefficients, k,
                   numpy_ragged, lapack, calls, solves>>

(***************************************************************************)
(* # Validate k argument and dimension (the argument is w)                 *)
(***************************************************************************)
\* np.any(q <= 0)
AnyNonPositive(q) == \E j \in 1..Len(q.data) : q.data[j] <= 0

\* if np.isscalar(q.value): q = np.array([q.value]); a 1-D Quantity stays
\* a Quantity and keeps its unit
scalar_to_array(q) == IF isscalar_value(q) THEN ndarray(<<q.data[1]>>) ELSE q

ValidateW ==
    /\ pc = "w"
    /\ LET w1 == squeeze(w)
       IN  IF ~(ndim(w1) = 0 \/ ndim(w1) = 1)
           THEN /\ w' = w1
                /\ Raise(Exception("ValueError", "shape", "w"))
                /\ UNCHANGED passed
           ELSE IF AnyNonPositive(w1)
           THEN /\ w' = w1
                /\ Raise(Exception("ValueError", "sign", "w"))
                /\ UNCHANGED passed
           ELSE /\ w' = scalar_to_array(w1)
                /\ pc' = "theta"
                /\ passed' = passed \cup {"w"}
                /\ UNCHANGED <<err, ret>>
    /\ UNCHANGED <<previous, hellinger_vars>>
    /\ UNCHANGED <<args, B, ions, n_i, theta, species, densities, wps, wcs,
                   S, P, D, R, L, A, C, i, coefficients, k,
                   numpy_ragged, lapack, calls, solves>>

(***************************************************************************)
(* # Validate theta value                                                  *)
(***************************************************************************)
\* building the message f"... {k.shape}." reads the local k, which is only
\* assigned in the solution block: the read raises before TypeError is built
theta_shape_exception(kd) ==
    IF ~kd.bound
    THEN Exception("UnboundLocalError", "unbound", "k")
    ELSE Exception("AttributeError", "attribute", "k")

ValidateTheta ==
    /\ pc = "theta"
    /\ LET t1 == to_radian(squeeze(theta))
       IN  IF ndim(t1) \notin {0, 1}
           THEN /\ theta' = t1
                /\ Raise(theta_shape_exception(k))
                /\ UNCHANGED passed
           ELSE /\ theta' = scalar_to_array(t1)
                /\ pc' = "frequencies"
                /\ passed' = passed \cup {"theta"}
                /\ UNCHANGED <<err, ret>>
    /\ UNCHANGED <<previous, hellinger_vars>>
    /\ UNCHANGED <<args, B, w, ions, n_i, species, densities, wps, wcs,
                   S, P, D, R, L, A, C, i, coefficients, k,
                   numpy_ragged, lapack, calls, solves>>

(***************************************************************************)
(* # Generate the plasma parameters needed: one iteration of the loop over *)
(* zip(species, densities)                                                 *)
(***************************************************************************)
PlasmaParameters ==
    /\ pc = "frequencies"
    /\ LET j == Len(wps) + 1
           par == species[j]
           dens == densities[j]
       IN  /\ wps' = Append(wps, plasma_frequency(RInt(dens), par))
           /\ wcs' = Append(wcs, gyrofrequency(B.data[1], par))
           /\ calls' = calls \o <<[fn |-> "plasma_frequency", particle |-> par],
                                  [fn |-> "gyrofrequency", particle |-> par]>>
           /\ pc' = IF j = Len(species) THEN "stix" ELSE "frequencies"
    /\ UNCHANGED <<previous, hellinger_vars>>
    /\ UNCHANGED <<args, B, w, ions, n_i, theta, species, densities,
                   S, P, D, R, L, A, C, i, coefficients, k,
                   numpy_ragged, lapack, solves, passed, err, ret>>


(***************************************************************************)
(* # Stix method implemented.  w is the 1-element array made from a scalar *)
(* w; S, P, D, R, L are 1-element arrays too and the model keeps their     *)
(* element.  A 1-D w is still a Quantity in rad/s here, and adding the     *)
(* plain number wcs[i] ** 2 to w ** 2 raises astropy's UnitConversionError.*)
(***************************************************************************)
\* (wps[j] ** 2) / (w ** 2 + wcs[j] ** 2)
resonance_term(wp, wc, wv) == FDiv(FSq(wp), FAdd(FSq(wv), FSq(wc)))

\* S after n iterations of the loop: S -= (wps[i] ** 2) / (w ** 2 + wcs[i] ** 2)
RECURSIVE stix_S(_, _, _, _)
stix_S(wp_s, wc_s, wv, n) ==
    IF n = 0 THEN DInt(1)
    ELSE FSub(stix_S(wp_s, wc_s, wv, n - 1),
              resonance_term(wp_s[n], wc_s[n], wv))

\* P -= (wps[i] / w) ** 2
RECURSIVE stix_P(_, _, _)
stix_P(wp_s, wv, n) ==
    IF n = 0 THEN DInt(1)
    ELSE FSub(stix_P(wp_s, wv, n - 1), FSq(FDiv(wp_s[n], wv)))

\* D += ((wps[i] ** 2) / (w ** 2 + wcs[i] ** 2)) * (wcs[i] / w)
RECURSIVE stix_D(_, _, _, _)
stix_D(wp_s, wc_s, wv, n) ==
    IF n = 0 THEN DZero
    ELSE FAdd(stix_D(wp_s, wc_s, wv, n - 1),
              FMul(resonance_term(wp_s[n], wc_s[n], wv), FDiv(wc_s[n], wv)))

StixParameters ==
    /\ pc = "stix"
    /\ IF w.unit # "none"
       THEN \* S = 1, P = 1, D = 0 are assigned; the first S -= ... raises
            /\ S' = DInt(1)
            /\ P' = DInt(1)
            /\ D' = DZero
            /\ Raise(Exception("UnitConversionError", "units", "w"))
            /\ UNCHANGED <<R, L>>
       ELSE LET wv == DInt(w.data[1])
                n == Len(wps)
            IN  /\ S' = stix_S(wps, wcs, wv, n)
                /\ P' = stix_P(wps, wv, n)
                /\ D' = stix_D(wps, wcs, wv, n)
                /\ R' = FAdd(S', D')
                /\ L' = FSub(S', D')
                /\ pc' = "coefficients"
                /\ UNCHANGED <<err, ret>>
    /\ UNCHANGED <<previous, hellinger_vars>>
    /\ UNCHANGED <<args, B, w, ions, n_i, theta, species, densities, wps, wcs,
                   A, C, i, coefficients, k,
                   numpy_ragged, lapack, calls, solves, passed>>

(***************************************************************************)
(* # Generate coefficients to solve: the loop over the angles, then k = {} *)
(***************************************************************************)
\* S * (np.sin(theta[i]) ** 2) + P * (np.cos(theta[i]) ** 2)
coefficient_A(Sv, Pv, t) ==
    FAdd(FMul(Sv, FSq(sin_double(t))), FMul(Pv, FSq(cos_double(t))))

\* -(R * L * (np.sin(theta[i]) ** 2) + P * S * (1 + (np.cos(theta[i]) ** 2)))
coefficient_B(Sv, Pv, Rv, Lv, t) ==
    DNeg(FAdd(FMul(FMul(Rv, Lv), FSq(sin_double(t))),
              FMul(FMul(Pv, Sv), FAdd(DInt(1), FSq(cos_double(t))))))

\* P * R * L
coefficient_C(Pv, Rv, Lv) == FMul(FMul(Pv, Rv), Lv)

Coefficients ==
    /\ pc = "coefficients"
    /\ A' = [j \in 1..Len(theta.data) |-> coefficient_A(S, P, theta.data[j])]
    /\ B' = [j \in 1..Len(theta.data) |->
                coefficient_B(S, P, R, L, theta.data[j])]
    /\ C' = [j \in 1..Len(theta.data) |-> coefficient_C(P, R, L)]
    /\ k' = EmptyDict
    /\ i' = 0
    /\ pc' = "solve"
    /\ UNCHANGED <<previous, hellinger_vars>>
    /\ UNCHANGED <<args, w, ions, n_i, theta, species, densities, wps, wcs,
                   S, P, D, R, L, coefficients,
                   numpy_ragged, lapack, calls, solves, passed, err, ret>>


(***************************************************************************)
(* np.roots and np.sort.  The lists stix builds are [a, 0, b, 0, c]: the   *)
(* roots are the square roots of the roots y of a y^2 + b y + c.  A root   *)
(* is kept as the number it is computed for,                               *)
(*     x = sgn * sqrt(y),   y = (-b + branch * sqrt(b^2 - 4 a c)) / (2 a)  *)
(* with the doubles a, b, c of the list in poly, sgn and branch in         *)
(* {-1, 1}, and sqrt the principal square root.  After np.roots has        *)
(* stripped a zero a, the list is [b, 0, c]: x = sgn * sqrt(-c / b), kept  *)
(* with poly = <<0, b, c>> and branch = 0.  sgn = 0 is the root 0.  The    *)
(* double the eigenvalue routine returns is within a few units in the last *)
(* place of x.  The routine returns a conjugate pair with one real part    *)
(* for both.  For a purely imaginary pair that real part is a rounding     *)
(* error, 0.0 or of the size of 1e-16, and np.sort orders by it; re_err is *)
(* its rank among the roots of the polynomial (-1 low, 0, 1 high).  disc   *)
(* is the sign of b^2 - 4 a c, kept with the root.  No list the calls of   *)
(* the model build has a double root.                                      *)
(***************************************************************************)
Root(sgn, branch, poly, disc) ==
    [sgn |-> sgn, branch |-> branch, poly |-> poly, disc |-> disc,
     re_err |-> 0]
ZeroRoot == Root(0, 0, <<DZero, DZero, DZero>>, 0)

\* the sign of b^2 - 4 a c: positive when a and c have opposite signs
discriminant_sign(poly) ==
    IF poly[1].s * poly[3].s < 0 THEN 1
    ELSE DCmp(DMul(poly[2], poly[2]), DMul(DInt(4), DMul(poly[1], poly[3])))

\* y is not real: the four roots are +-X +- iY with one X > 0 and one Y > 0
complex_square(r) == r.branch # 0 /\ r.disc = -1

\* 2 for the roots of the square y of the greater value, 1 for the others:
\* the greater y has branch = sign(a)
square_rank(r) ==
    IF r.branch # 0 /\ r.branch = r.poly[1].s /\ r.disc # 0
    THEN 2 ELSE 1

\* The sign of the square y of the root r, for a real y.  The two y of
\* a y^2 + b y + c have the product c / a and the sum -b / a: for c / a < 0
\* the greater one is positive and the other one negative, for c / a > 0
\* both have the sign of -b / a.
square_sign(r) ==
    IF r.sgn = 0 THEN 0
    ELSE IF r.branch = 0 THEN -r.poly[3].s * r.poly[2].s
    ELSE IF r.poly[3].s * r.poly[1].s < 0
    THEN IF r.branch = r.poly[1].s THEN 1 ELSE -1
    ELSE -r.poly[2].s * r.poly[1].s

\* How the real parts of two purely imaginary pairs (both squares negative
\* reals) can come out of the eigenvalue routine: equal (the roots are then
\* sorted by their imaginary parts), or the pair of the first square below
\* or above the other pair.
EigOrders(q) ==
    LET two_imaginary_pairs ==
            /\ Len(q) = 5
            /\ discriminant_sign(<<q[1], q[3], q[5]>>) >= 0
            /\ \A br \in {-1, 1} :
                  square_sign(Root(1, br, <<q[1], q[3], q[5]>>, 1)) = -1
    IN  IF two_imaginary_pairs
        THEN {"by_imag", "first_low", "second_low"}
        ELSE {"by_imag"}

\* the eigenvalues of the companion matrix of q[1] x^(N-1) + ... + q[N],
\* for the lists stix builds (zero coefficients at the odd powers)
eigvals_companion(q, order) ==
    CASE Len(q) = 3 ->
            <<Root(1, 0, <<DZero, q[1], q[3]>>, 1),
              Root(-1, 0, <<DZero, q[1], q[3]>>, 1)>>
      [] Len(q) = 5 ->
            LET \* the rank of the real part of the roots of square n
                real_part_rank(n) ==
                    CASE order = "by_imag" -> 0
                      [] order = "first_low" -> IF n = 1 THEN -1 ELSE 1
                      [] order = "second_low" -> IF n = 1 THEN 1 ELSE -1
                disc == discriminant_sign(<<q[1], q[3], q[5]>>)
                pair(n) ==
                    LET br == IF n = 1 THEN 1 ELSE -1
                    IN  <<[Root(1, br, <<q[1], q[3], q[5]>>, disc)
                              EXCEPT !.re_err = real_part_rank(n)],
                          [Root(-1, br, <<q[1], q[3], q[5]>>, disc)
                              EXCEPT !.re_err = real_part_rank(n)]>>
            IN  pair(1) \o pair(2)

\* p without its leading and trailing zeros (np.roots strips both)
strip_zeros(p) ==
    LET non_zero == {j \in 1..Len(p) : p[j].s # 0}
    IN  IF non_zero = {} THEN <<>>
        ELSE SubSeq(p, SetMin(non_zero), SetMax(non_zero))

\* np.roots(p): leading zeros are stripped, trailing zeros become roots 0
np_roots(p, order) ==
    LET non_zero == {j \in 1..Len(p) : p[j].s # 0}
    IN  IF non_zero = {}
        THEN <<>>
        ELSE LET trailing_zeros == Len(p) - SetMax(non_zero)
                 q == strip_zeros(p)
             IN  (IF Len(q) > 1 THEN eigvals_companion(q, order) ELSE <<>>)
                     \o Repeat(ZeroRoot, trailing_zeros)

\* The place of the real part of r among the real parts of the roots of its
\* polynomial: real roots by their value, the others by the rounding error
\* of the routine.
real_part_key(r) ==
    IF r.sgn = 0 THEN <<0, 0>>
    ELSE IF complex_square(r) THEN <<r.sgn, 0>>
    ELSE IF square_sign(r) = 1 THEN <<r.sgn * square_rank(r), 0>>
    ELSE <<0, r.re_err>>

\* The place of the imaginary part of r: the principal square root of y has
\* an imaginary part of the sign of Im(y), which is branch * sign(a); the
\* smaller of two negative squares has the greater imaginary part.
imag_part_key(r) ==
    IF r.sgn = 0 THEN 0
    ELSE IF complex_square(r) THEN r.sgn * r.branch * r.poly[1].s
    ELSE IF square_sign(r) = -1 THEN r.sgn * (3 - square_rank(r))
    ELSE 0

\* lexicographic order of pairs of integers
PairCmp(x, y) ==
    IF x[1] # y[1] THEN IntCmp(x[1], y[1]) ELSE IntCmp(x[2], y[2])

\* a faulty order that compares the real parts only
RootCmp_real_only(r1, r2) ==
    PairCmp(real_part_key(r1), real_part_key(r2))

\* The order of np.sort on complex numbers: by real part, then by imaginary
\* part.
RootCmp(r1, r2) ==
    LET by_real_part == PairCmp(real_part_key(r1), real_part_key(r2))
    IN  IF by_real_part # 0 THEN by_real_part
        ELSE IntCmp(imag_part_key(r1), imag_part_key(r2))

RECURSIVE sort_insert(_, _)
sort_insert(r, sq) ==
    IF sq = <<>> THEN <<r>>
    ELSE IF RootCmp(r, Head(sq)) <= 0 THEN <<r>> \o sq
    ELSE <<Head(sq)>> \o sort_insert(r, Tail(sq))

RECURSIVE np_sort(_)
np_sort(sq) ==
    IF sq = <<>> THEN <<>> ELSE sort_insert(Head(sq), np_sort(Tail(sq)))

(***************************************************************************)
(* # Generate solutions: one iteration of the loop over the angles.        *)
(* a, b and c are 1-element arrays, so the list handed to np.roots mixes   *)
(* arrays and the int 0.  What numpy makes of such a list depends on the   *)
(* numpy build: an object array whose elements are read as numbers, or a   *)
(* ValueError (inhomogeneous shape).  For a 1-D theta the elements         *)
(* theta[i] are Quantities, and so are a, b and c: np.roots then asks the  *)
(* elements of the object array for their truth value, which an astropy    *)
(* build either gives or refuses with a ValueError (Quantity truthiness is *)
(* ambiguous).  The outcome is fixed at the first call and is the same for *)
(* every later call.  The eigenvalue routine is a function of the doubles  *)
(* of the list: lapack records, per list solved, how its eigenvalues came  *)
(* out, and the same doubles give the same roots again.                    *)
(***************************************************************************)
\* the outcomes for the list built from the angles theta
RaggedOutcomes ==
    IF numpy_ragged # "unknown" THEN {numpy_ragged}
    ELSE IF theta.unit # "none"
    THEN {"object_array", "ValueError", "Quantity_truthiness"}
    ELSE {"object_array", "ValueError"}

\* the exception np.roots raises for an outcome
ragged_exception(outcome) ==
    IF outcome = "ValueError"
    THEN Exception("ValueError", "inhomogeneous", "coefficients")
    ELSE Exception("ValueError", "truthiness", "coefficients")

\* arg_ = c_si_unitless / w; coefficients = [arg_ * A[i], 0, arg_ * B[i], 0, C[i]]
coefficient_list(Ai, Bi, Ci, wv) ==
    LET arg_ == FDiv(DInt(c_si_unitless), wv)
    IN  <<FMul(arg_, Ai), DZero, FMul(arg_, Bi), DZero, Ci>>

\* how the eigenvalues of the list cf came out when it was solved
solved_order(done, cf) ==
    done[SetMin({j \in 1..Len(done) : done[j].coefficients = cf})].order

\* the ways the eigenvalues of the list cf can come out, after the calls of
\* the routine recorded in done
eig_outcomes(cf, done) ==
    IF \E j \in 1..Len(done) : done[j].coefficients = cf
    THEN {solved_order(done, cf)}
    ELSE EigOrders(strip_zeros(cf))

Solve ==
    /\ pc = "solve"
    /\ coefficients' = coefficient_list(A[i + 1], B[i + 1], C[i + 1],
                                        DInt(w.data[1]))
    /\ solves' = solves + 1
    /\ \E outcome \in RaggedOutcomes :
        /\ numpy_ragged' = outcome
        /\ IF outcome # "object_array"
           THEN /\ Raise(ragged_exception(outcome))
                /\ UNCHANGED <<k, i, lapack>>
           ELSE \E order \in eig_outcomes(coefficients', lapack) :
                /\ lapack' =
                      IF \E j \in 1..Len(lapack) :
                            lapack[j].coefficients = coefficients'
                      THEN lapack
                      ELSE Append(lapack, [coefficients |-> coefficients',
                                           order |-> order])
                /\ k' = DictSet(k, theta.data[i + 1],
                                np_sort(np_roots(coefficients', order)))
                /\ i' = i + 1
                /\ pc' = IF i' = Len(theta.data) THEN "return" ELSE "solve"
                /\ UNCHANGED <<err, ret>>
    /\ UNCHANGED <<previous, hellinger_vars>>
    /\ UNCHANGED <<args, B, w, ions, n_i, theta, species, densities, wps, wcs,
                   S, P, D, R, L, A, C, calls, passed>>

Return ==
    /\ pc = "return"
    /\ ret' = [returned |-> TRUE, value |-> k]
    /\ pc' = "done"
    /\ UNCHANGED <<previous, hellinger_vars>>
    /\ UNCHANGED <<args, stix_locals, numpy_ragged, lapack, calls, solves, passed, err>>

(***************************************************************************)
(* The caller of stix.  After a call with a scalar density for one ion or  *)
(* more it calls stix again, with the density written out as the array     *)
(* [n] * len(ions) and every other argument as before, in the same         *)
(* process: numpy and the eigenvalue routine behave as in the first call.  *)
(***************************************************************************)
Outcome(e, r) == [err |-> e, ret |-> r]

\* the call with the explicit array [n, ..., n], one n per ion, in place of
\* the scalar density n
ExplicitArray(a) ==
    [a EXCEPT !.n_i = Array1(a.n_i.unit,
                             Repeat(a.n_i.data[1], Len(a.ions.items)))]

CallAgain ==
    /\ pc \in {"done", "raised"}
    /\ ~previous.called
    /\ ndim(args.n_i) = 0
    /\ Len(args.ions.items) >= 1
    /\ ExplicitArray(args) \in StixArgs
    /\ previous' = [called |-> TRUE, args |-> args, n_i |-> n_i,
                    densities |-> densities, outcome |-> Outcome(err, ret)]
    /\ args' = ExplicitArray(args)
    /\ pc' = "validate_quantities"
    /\ B' = args'.B
    /\ w' = args'.w
    /\ ions' = args'.ions
    /\ n_i' = args'.n_i
    /\ theta' = args'.theta
    /\ species' = <<>>
    /\ densities' = <<>>
    /\ wps' = <<>>
    /\ wcs' = <<>>
    /\ S' = DZero /\ P' = DZero /\ D' = DZero /\ R' = DZero /\ L' = DZero
    /\ A' = <<>>
    /\ C' = <<>>
    /\ i' = 0
    /\ coefficients' = <<>>
    /\ k' = UnboundDict
    /\ calls' = <<>>
    /\ solves' = 0
    /\ passed' = {}
    /\ err' = NoException
    /\ ret' = NoReturn
    /\ UNCHANGED <<numpy_ragged, lapack>>
    /\ UNCHANGED hellinger_vars

Next ==
    \/ validate_quantities
    \/ ValidateIons
    \/ ValidateNi
    \/ BuildDensities
    \/ ValidateB
    \/ ValidateW
    \/ ValidateTheta
    \/ PlasmaParameters
    \/ StixParameters
    \/ Coefficients
    \/ Solve
    \/ Return
    \/ CallAgain

Spec == Init /\ [][Next]_vars

(***************************************************************************)
(*                         Properties of stix                              *)
(***************************************************************************)
Terminated == pc \in {"done", "raised"}

\* the angles as supplied, converted to radians
SuppliedAngles == to_radian(args.theta).data

LastOccurrence(sq, v) == SetMax({j \in 1..Len(sq) : sq[j] = v})

\* the roots computed in iteration j of the solution loop
RootsOfIteration(j) ==
    LET cf == coefficient_list(A[j], B[j], C[j], DInt(w.data[1]))
    IN  np_sort(np_roots(cf, solved_order(lapack, cf)))

CoreStarted == calls # <<>> \/ solves > 0
ValidationBlocks == {"validate_quantities", "ions", "n_i", "B", "w", "theta"}
ValidationKinds == {"sign", "species", "shape", "unbound"}

\* C1: every call whose arguments pass validation returns a map whose key
\* set is the set of distinct supplied angle values in radians: every
\* supplied angle has an entry, there is no other key, equal angles share
\* one entry, and that entry holds the roots computed for the later
\* occurrence of the angle.
C1_KeysAreDistinctAngles ==
    (Terminated /\ ValidationBlocks \subseteq passed) =>
        /\ ret.returned
        /\ DictKeys(ret.value) = Range(SuppliedAngles)
        /\ Len(ret.value.items) = Cardinality(Range(SuppliedAngles))
        /\ \A key \in Range(SuppliedAngles) :
              DictGet(ret.value, key) =
                  RootsOfIteration(LastOccurrence(SuppliedAngles, key))

\* C2: every entry of the returned map holds exactly 4 roots, also when the
\* leading coefficient A(theta) is 0 and when the constant coefficient C
\* is 0.
C2_FourRootsPerEntry ==
    ret.returned =>
        \A j \in 1..Len(ret.value.items) : Len(ret.value.items[j].val) = 4

\* the input contract of stix, stated on the arguments
NoNegativeValue(q) == \A j \in 1..Len(q.data) : q.data[j] >= 0
AllPositive(q) == \A j \in 1..Len(q.data) : q.data[j] > 0
DecoratorSatisfied(a) ==
    NoNegativeValue(a.B) /\ NoNegativeValue(a.w) /\ NoNegativeValue(a.n_i)
PositiveIon(p) == is_ion(p) /\ charge_number(p) > 0
IonsSatisfied(a) == \A j \in 1..Len(a.ions.items) : PositiveIon(a.ions.items[j])
DensityShapeSatisfied(a) ==
    \/ Len(a.n_i.shape) = 0
    \/ Len(a.n_i.shape) = 1 /\ a.n_i.shape[1] = Len(a.ions.items)
FieldSatisfied(a) == Len(squeeze(a.B).shape) = 0
FrequencyShapeSatisfied(a) == Len(squeeze(a.w).shape) <= 1
AngleShapeSatisfied(a) == Len(squeeze(a.theta).shape) <= 1

\* C3: no collaborator call and no polynomial solve happens unless the
\* checks on ions, n_i, B, w and theta have all passed, and a call in which
\* a check fails raises and returns no result map, not even a partial one.
C3_ValidationBeforeCore ==
    /\ CoreStarted =>
          /\ ValidationBlocks \subseteq passed
          /\ DecoratorSatisfied(args) /\ IonsSatisfied(args)
          /\ DensityShapeSatisfied(args) /\ FieldSatisfied(args)
          /\ FrequencyShapeSatisfied(args) /\ AllPositive(args.w)
          /\ AngleShapeSatisfied(args)
    /\ ~(ValidationBlocks \subseteq passed) /\ Terminated =>
          /\ pc = "raised"
          /\ err.kind \in ValidationKinds
          /\ ~CoreStarted
          /\ ~ret.returned
          /\ k.items = <<>>

\* the w check fails after the checks before it have passed
C3_Witness ==
    /\ pc = "raised"
    /\ err = Exception("ValueError", "sign", "w")
    /\ {"validate_quantities", "ions", "n_i", "B"} \subseteq passed
    /\ ~CoreStarted

\* C4: with every other argument valid, a theta or a w that has more than
\* one dimension after squeezing ends the call in the shape error.
C4_ShapeErrorRaised ==
    (/\ Terminated
     /\ DecoratorSatisfied(args) /\ IonsSatisfied(args)
     /\ DensityShapeSatisfied(args) /\ FieldSatisfied(args)
     /\ \/ ~FrequencyShapeSatisfied(args)
        \/ AllPositive(args.w) /\ ~AngleShapeSatisfied(args))
        => pc = "raised" /\ err.kind = "shape"

\* C5: with every other argument valid, a wave frequency <= 0 or an ion
\* density <= 0 ends the call in the sign error, and no map is returned.
C5_SignErrorRaised ==
    (/\ Terminated
     /\ IonsSatisfied(args) /\ DensityShapeSatisfied(args)
     /\ FieldSatisfied(args) /\ FrequencyShapeSatisfied(args)
     /\ AngleShapeSatisfied(args)
     /\ ~AllPositive(args.w) \/ ~AllPositive(args.n_i))
        => pc = "raised" /\ err.kind = "sign" /\ ~ret.returned


InvalidSpeciesOutcome ==
    IF ~IonsSatisfied(args)
    THEN pc = "raised" /\ err = Exception("ValueError", "species", "ions")
    ELSE err.kind # "species"

\* C8 as stated: every call with a particle that is not a positively
\* charged ion ends in the invalid-species error, whatever the other
\* arguments are, and no call with positively charged ions only does.
C8_InvalidSpeciesRaised == Terminated => InvalidSpeciesOutcome

\* C8: when B, w and n_i hold no negative value, so that the decorator's
\* validation, which runs first, passes, the call ends in the
\* invalid-species error if some element of ions, single or at any position
\* of a list, is not a positively charged ion, and never ends in it when
\* all of them are.
C8_InvalidSpeciesAfterDecorator ==
    (Terminated /\ DecoratorSatisfied(args)) => InvalidSpeciesOutcome

\* the second particle of a list is rejected
C8_Witness ==
    /\ pc = "raised"
    /\ err = Exception("ValueError", "species", "ions")
    /\ DecoratorSatisfied(args)
    /\ args.ions.list
    /\ Len(args.ions.items) = 2
    /\ PositiveIon(args.ions.items[1])
    /\ ~PositiveIon(args.ions.items[2])

DensityShapeRaised ==
    pc = "raised" /\ err = Exception("ValueError", "shape", "n_i")

\* C9 as stated: every call ends in the shape error of n_i exactly when
\* n_i has more than one dimension or is 1-D of a length other than the
\* number of ions, whatever the other arguments are.
C9_DensityShapeRaised ==
    Terminated => (DensityShapeRaised <=> ~DensityShapeSatisfied(args))

\* C9: when the checks that run before the n_i check pass (no negative
\* value in B, w, n_i, and positively charged ions only), the call ends in
\* the shape error of n_i exactly when n_i has more than one dimension or
\* is 1-D of a length other than the number of ions; a scalar n_i and a 1-D
\* n_i of length len(ions) pass the check.
C9_DensityShapeAfterEarlierChecks ==
    (Terminated /\ DecoratorSatisfied(args) /\ IonsSatisfied(args)) =>
        /\ DensityShapeRaised <=> ~DensityShapeSatisfied(args)
        /\ DensityShapeSatisfied(args) => "n_i" \in passed

\* a 1-element 1-D n_i is rejected for two ions
C9_Witness ==
    /\ DensityShapeRaised
    /\ args.n_i.shape = <<1>>
    /\ Len(args.ions.items) = 2


ScalarDensity == args.n_i.shape = <<>> /\ Len(args.ions.items) >= 1

DensitiesBuilt ==
    "n_i" \in passed /\ pc # "densities"

\* C10: a call with the scalar density n for k >= 1 ions builds the density
\* vector [n, ..., n] of length k with the electron density after it, and
\* the call with the explicit array [n, ..., n] that follows it builds the
\* same density vector and ends as the first call ended: the same result
\* map or the same exception.
C10_DensityBroadcast ==
    /\ (ScalarDensity /\ DensitiesBuilt) =>
          /\ n_i = ndarray(Repeat(args.n_i.data[1], Len(args.ions.items)))
          /\ SubSeq(densities, 1, Len(args.ions.items)) =
                Repeat(args.n_i.data[1], Len(args.ions.items))
    /\ previous.called =>
          /\ previous.args.n_i.shape = <<>>
          /\ args = ExplicitArray(previous.args)
          /\ DensitiesBuilt =>
                /\ n_i = previous.n_i
                /\ densities = previous.densities
          /\ Terminated => Outcome(err, ret) = previous.outcome

\* a map returned for the array [n, n], after the map returned for the
\* scalar density n > 0 and the same two ions
C10_Witness ==
    /\ previous.called
    /\ previous.outcome.ret.returned
    /\ previous.args.n_i.data[1] > 0
    /\ Len(args.ions.items) = 2
    /\ args.n_i.shape = <<2>>
    /\ ret.returned
    /\ Len(densities) = 3


\* the density the caller gave for ion j
IonDensity(a, j) ==
    IF a.n_i.shape = <<>> THEN a.n_i.data[1] ELSE a.n_i.data[j]

\* C11: the species list of the core is the caller's ions in caller order
\* followed by one electron; the density vector has length len(ions) + 1,
\* holds the ion densities in caller order and, last, the electron density,
\* the sum over the ions of density times charge number; the collaborators
\* are called on the species in that order with those densities.
C11_SpeciesAndDensities ==
    DensitiesBuilt =>
        LET ionlist == args.ions.items
            kk == Len(ionlist)
        IN  /\ species = ionlist \o <<"e-">>
            /\ Len(densities) = kk + 1
            /\ \A j \in 1..kk : densities[j] = IonDensity(args, j)
            /\ densities[kk + 1] =
                  Sum([j \in 1..kk |->
                          IonDensity(args, j) * charge_number(ionlist[j])])
            /\ \A j \in 1..Len(calls) :
                  calls[j].particle = species[(j + 1) \div 2]
            /\ \A j \in 1..Len(wps) :
                  wps[j] = plasma_frequency(RInt(densities[j]), species[j])

\* a map returned for helium with density 1 and protons with density 2
C11_Witness ==
    /\ ret.returned
    /\ species = <<"He-4 2+", "p+", "e-">>
    /\ densities = <<1, 2, 4>>
    /\ Len(calls) = 6


\* b^2 - 4 a c, exactly
discriminant(poly) ==
    DSub(DMul(poly[2], poly[2]), DMul(DInt(4), DMul(poly[1], poly[3])))

\* the sign of u + v * sqrt(d), for d >= 0
SurdSign(u, v, d) ==
    LET su == u.s
        sv == IF d.s = 0 THEN 0 ELSE v.s
    IN  IF sv = 0 THEN su
        ELSE IF su = 0 THEN sv
        ELSE IF su = sv THEN su
        ELSE su * DCmp(DMul(u, u), DMul(DMul(v, v), d))

\* the stored root r, read as a wavenumber k, satisfies
\* Aj * (c k / w)^4 + Bj * (c k / w)^2 + Cj = 0.  With f = (c / w)^2 and
\* k^2 = y = (-b + branch * sqrt(d)) / (2 a) the left side, times
\* 4 a^2 w^4, is U + V sqrt(d); for k^2 = -c / b it is taken times b^2 w^4.
SatisfiesDispersion(r, Aj, Bj, Cj) ==
    LET fn == DInt(c_si_unitless * c_si_unitless)
        fd == DInt(w.data[1] * w.data[1])
        a == r.poly[1]
        b == r.poly[2]
        c == r.poly[3]
        d == discriminant(r.poly)
        M3(x, y, z) == DMul(DMul(x, y), z)
        U == DAdd(DSub(M3(Aj, DMul(fn, fn), DAdd(DMul(b, b), d)),
                       M3(DMul(DInt(2), Bj), DMul(fn, fd), DMul(a, b))),
                  M3(DMul(DInt(4), Cj), DMul(fd, fd), DMul(a, a)))
        V == DMul(DInt(2 * r.branch),
                  DSub(M3(Bj, DMul(fn, fd), a), M3(Aj, DMul(fn, fn), b)))
    IN  IF r.sgn = 0 THEN Cj.s = 0
        ELSE IF r.branch = 0
        THEN DAdd(DSub(M3(Aj, DMul(fn, fn), DMul(c, c)),
                               M3(Bj, DMul(fn, fd), DMul(c, b))),
                          M3(Cj, DMul(fd, fd), DMul(b, b))).s = 0
        ELSE IF d.s = -1
        THEN U.s = 0 /\ V.s = 0
        ELSE SurdSign(U, V, d) = 0

\* the iteration of the solution loop that ran last
LastSolved == IF pc = "raised" THEN i + 1 ELSE i

\* C13: the list handed to the solver for an angle is [A, 0, B, 0, C] with
\* the A, B, C of that angle, and every root stored in the result map, read
\* as a wavenumber k, satisfies A (c k / w)^4 + B (c k / w)^2 + C = 0.
C13_RootsAreWavenumbers ==
    /\ solves > 0 =>
          coefficients = <<A[LastSolved], DZero, B[LastSolved], DZero,
                           C[LastSolved]>>
    /\ ret.returned =>
          \A e \in 1..Len(ret.value.items) :
              LET j == LastOccurrence(SuppliedAngles, ret.value.items[e].key)
                  roots == ret.value.items[e].val
              IN  \A n \in 1..Len(roots) :
                      SatisfiesDispersion(roots[n], A[j], B[j], C[j])


\* the distinct values of sq in the order of their first occurrence
FirstOccurrences(sq) ==
    LET F[n \in 0..Len(sq)] ==
            IF n = 0 THEN <<>>
            ELSE IF sq[n] \in Range(SubSeq(sq, 1, n - 1)) THEN F[n - 1]
            ELSE Append(F[n - 1], sq[n])
    IN  F[Len(sq)]

\* the keys of a dict in iteration order
KeysInOrder(d) == [e \in 1..Len(d.items) |-> d.items[e].key]

\* C14: the map is built in the order the angles were supplied: after i
\* iterations its keys, in iteration order, are the distinct values among
\* the first i angles in the order of their first occurrence; there is one
\* coefficient triple per supplied angle and the triple an iteration
\* solves is the one of the angle of that iteration; the entry of an angle
\* holds the roots computed from the triple of that angle (of its last
\* occurrence so far); the returned map is the map so built.
C14_MapInSuppliedOrder ==
    /\ k.bound =>
          /\ i <= Len(SuppliedAngles)
          /\ KeysInOrder(k) = FirstOccurrences(SubSeq(SuppliedAngles, 1, i))
          /\ Len(A) = Len(SuppliedAngles)
          /\ Len(B) = Len(SuppliedAngles)
          /\ Len(C) = Len(SuppliedAngles)
          /\ pc = "solve" =>
                /\ A[i + 1] = coefficient_A(S, P, SuppliedAngles[i + 1])
                /\ B[i + 1] = coefficient_B(S, P, R, L, SuppliedAngles[i + 1])
                /\ C[i + 1] = coefficient_C(P, R, L)
          /\ \A e \in 1..Len(k.items) :
                k.items[e].val =
                    RootsOfIteration(
                        LastOccurrence(SubSeq(SuppliedAngles, 1, i),
                                       k.items[e].key))
    /\ ret.returned => ret.value = k /\ i = Len(SuppliedAngles)

\* a map returned for theta = [30, 90, 30] deg: the key of 30 deg stays in
\* front of the key of 90 deg when 30 deg is assigned again, and the two
\* entries hold different roots
C14_Witness ==
    /\ ret.returned
    /\ args.theta.data = <<30, 90, 30>>
    /\ KeysInOrder(ret.value) = <<2, 6>>
    /\ ret.value.items[1].val # ret.value.items[2].val


\* the polynomial two roots of one entry are roots of
CommonPoly(r1, r2) == IF r1.sgn # 0 THEN r1.poly ELSE r2.poly

\* The square y of a root as <<u, v>>: y = (u + v sqrt(d)) / (2 a) for a
\* root of a x^4 + b x^2 + c, y = u / b for a root of b x^2 + c.
SquareOf(r) ==
    IF r.sgn = 0 THEN <<DZero, DZero>>
    ELSE IF r.branch = 0 THEN <<DNeg(r.poly[3]), DZero>>
    ELSE <<DNeg(r.poly[2]), DInt(r.branch)>>

\* the sign of the denominator of y
DenominatorSign(poly) ==
    IF poly[1].s = 0 THEN poly[2].s ELSE poly[1].s

\* s * x for a pair x
Scaled(s, x) == <<DMul(DInt(s), x[1]), DMul(DInt(s), x[2])>>

\* the sign of y, for a real y
SquareSign(r) ==
    SurdSign(SquareOf(r)[1], SquareOf(r)[2], discriminant(r.poly))
        * DenominatorSign(r.poly)

\* Re(r) * |Re(r)| and Im(r) * |Im(r)| for a real y: the root is
\* sgn * sqrt(y) for y > 0 and sgn * i * sqrt(-y) for y < 0
ReSquared(r) ==
    IF SquareSign(r) = 1 THEN Scaled(r.sgn, SquareOf(r))
    ELSE <<DZero, DZero>>

ImSquared(r) ==
    IF SquareSign(r) = -1 THEN Scaled(-r.sgn, SquareOf(r))
    ELSE <<DZero, DZero>>

\* -1, 0, 1 as the number of the pair x is below, equal to, above the one
\* of the pair y, over the common denominator of the polynomial
SquaredCmp(x, y, poly) ==
    SurdSign(DSub(x[1], y[1]), DSub(x[2], y[2]), discriminant(poly))
        * DenominatorSign(poly)

\* -1, 0, 1 as Re(r1) is below, equal to, above Re(r2).  For a negative
\* discriminant the four roots are +-X +- iY with one X > 0 and one Y > 0,
\* and the principal square root of y has a positive real part and an
\* imaginary part of the sign of Im(y).  Real parts that are rounding
\* errors compare as the routine returned them.
ReCmp(r1, r2) ==
    LET poly == CommonPoly(r1, r2)
        by_value == SquaredCmp(ReSquared(r1), ReSquared(r2), poly)
    IN  IF discriminant(poly).s = -1
        THEN IntCmp(r1.sgn, r2.sgn)
        ELSE IF by_value # 0 THEN by_value
        ELSE IntCmp(r1.re_err, r2.re_err)

ImCmp(r1, r2) ==
    LET poly == CommonPoly(r1, r2)
    IN  IF discriminant(poly).s = -1
        THEN IntCmp(r1.sgn * r1.branch * poly[1].s,
                    r2.sgn * r2.branch * poly[1].s)
        ELSE SquaredCmp(ImSquared(r1), ImSquared(r2), poly)

Count(sq, x) == Cardinality({n \in 1..Len(sq) : sq[n] = x})

IsPermutation(s1, s2) ==
    /\ Len(s1) = Len(s2)
    /\ \A x \in Range(s1) \cup Range(s2) : Count(s1, x) = Count(s2, x)

\* C15: in every entry of the returned map, consecutive roots r, r' have
\* Re(r) < Re(r'), or Re(r) = Re(r') and Im(r) <= Im(r'), and the entry is
\* a permutation of the roots the solver gave for that angle.
C15_RootsSorted ==
    ret.returned =>
        \A e \in 1..Len(ret.value.items) :
            LET roots == ret.value.items[e].val
                j == LastOccurrence(SuppliedAngles, ret.value.items[e].key)
                cf == coefficient_list(A[j], B[j], C[j], DInt(w.data[1]))
            IN  /\ \A n \in 1..(Len(roots) - 1) :
                      LET re == ReCmp(roots[n], roots[n + 1])
                      IN  \/ re = -1
                          \/ /\ re = 0
                             /\ ImCmp(roots[n], roots[n + 1]) <= 0
                /\ IsPermutation(roots,
                                 np_roots(cf, solved_order(lapack, cf)))

\* an entry of four roots in which two roots have the same real part and
\* are ordered by their imaginary parts, and two by their real parts
C15_Witness ==
    /\ ret.returned
    /\ \E e \in 1..Len(ret.value.items) :
          LET roots == ret.value.items[e].val
          IN  /\ Len(roots) = 4
              /\ \E n \in 1..3 :
                    /\ ReCmp(roots[n], roots[n + 1]) = 0
                    /\ ImCmp(roots[n], roots[n + 1]) = -1
              /\ \E n \in 1..3 : ReCmp(roots[n], roots[n + 1]) = -1


\* the in-body checks in the order of the claim
CheckOrder == <<"ions", "n_i", "B", "w", "theta">>

\* the argument does not satisfy what the check asks for
CheckFails(c, a) ==
    CASE c = "ions" -> ~IonsSatisfied(a)
      [] c = "n_i" -> ~DensityShapeSatisfied(a)
      [] c = "B" -> ~FieldSatisfied(a)
      [] c = "w" -> ~FrequencyShapeSatisfied(a) \/ ~AllPositive(a.w)
      [] c = "theta" -> ~AngleShapeSatisfied(a)

\* the exceptions a check ends in; the theta check ends in the
\* UnboundLocalError of its message
ErrorsOfCheck(c) ==
    CASE c = "ions" -> {Exception("ValueError", "species", "ions")}
      [] c = "n_i" -> {Exception("ValueError", "shape", "n_i")}
      [] c = "B" -> {Exception("ValueError", "shape", "B")}
      [] c = "w" -> {Exception("ValueError", "shape", "w"),
                     Exception("ValueError", "sign", "w")}
      [] c = "theta" -> {Exception("TypeError", "shape", "theta"),
                         Exception("UnboundLocalError", "unbound", "k")}

\* the place in CheckOrder of the first check that fails, 0 when none does
FirstFailing(a) ==
    LET failing == {f \in 1..Len(CheckOrder) : CheckFails(CheckOrder[f], a)}
    IN  IF failing = {} THEN 0 ELSE SetMin(failing)

FirstFailureOutcome ==
    LET f == FirstFailing(args)
    IN  IF f = 0
        THEN /\ Range(CheckOrder) \subseteq passed
             /\ err.kind \notin ValidationKinds
        ELSE /\ pc = "raised"
             /\ err \in ErrorsOfCheck(CheckOrder[f])
             /\ passed \cap Range(CheckOrder) =
                   {CheckOrder[m] : m \in 1..(f - 1)}

\* C16 as stated: whatever the arguments are, a call with invalid arguments
\* ends in the error of the first failing check in the order ions, n_i, B,
\* w, theta, and no later check is evaluated.
C16_FirstFailingCheck ==
    (Terminated /\ FirstFailing(args) # 0) => FirstFailureOutcome

\* C16: when B, w and n_i hold no negative value, so that the decorator's
\* validation, which runs before the body, passes, a call with invalid
\* arguments ends in the first failing check in the order ions, n_i, B, w,
\* theta, with the exception of that check, and no later check is
\* evaluated.
C16_FirstFailingCheckAfterDecorator ==
    (Terminated /\ DecoratorSatisfied(args)) => FirstFailureOutcome

\* a neutral particle with a 2-D n_i and w = 0: the invalid-species error
C16_Witness ==
    /\ pc = "raised"
    /\ err = Exception("ValueError", "species", "ions")
    /\ args.ions.items = <<"He-4 0+">>
    /\ Len(args.n_i.shape) = 2
    /\ args.w.data = <<0>>
    /\ passed \cap Range(CheckOrder) = {}


(***************************************************************************)
(*                    timescales.py: Hellinger                             *)
(*                                                                         *)
(* Quantities passed to the timescale functions hold rational data and    *)
(* the dtype of their value.                                               *)
(***************************************************************************)
HQuantity(unit, shape, ns, dtype) ==
    [unit |-> unit, shape |-> shape,
     data |-> [j \in 1..Len(ns) |-> RInt(ns[j])], dtype |-> dtype]
HScalar(unit, n) == HQuantity(unit, <<>>, <<n>>, "float64")
HArray(unit, ns) == HQuantity(unit, <<Len(ns)>>, ns, "float64")

Version(type, value) == [type |-> type, value |-> value]

VersionArgs ==
    {Version("int", RInt(v)) : v \in {2009, 2010, 2011, 2016}}
        \cup {Version("float", RInt(2016)), Version("float", Rat(4021, 2)),
              Version("bool", RInt(1)), Version("str", RInt(2009)),
              Version("NoneType", RInt(0))}

TempArgs ==
    {HScalar("K", 1), HScalar("K", 0), HArray("K", <<1, 2>>),
     HQuantity("K", <<>>, <<1>>, "float32")}
DensityArgs ==
    {HScalar("m-3", 2), HScalar("m-3", -1),
     HQuantity("m-3", <<>>, <<2>>, "float32")}
\* two speeds, three speeds, one speed as a 0-d value, a 2 x 3 array
SpeedArgs ==
    {HArray("m/s", <<1, 2>>), HArray("m/s", <<1, 2, 3>>), HScalar("m/s", 1),
     HQuantity("m/s", <<2, 3>>, <<1, 2, 3, 4, 5, 6>>, "float64")}
MethodArgs == {[type |-> "str", value |-> "classical"],
               [type |-> "NoneType", value |-> "None"],
               [type |-> "int", value |-> "5"]}
\* one particle, or a list of one, two or three particles
PairArgs ==
    {[list |-> FALSE, items |-> <<"p+">>]}
        \cup {[list |-> TRUE, items |-> l] :
                l \in SeqsOf({"p+", "He-4 0+", "H 1-"}, 2, 2)}
        \cup {[list |-> TRUE, items |-> l] :
                l \in {<<"p+">>, <<"e-", "p+">>, <<"p+", "p+", "p+">>}}

\* the parameters of the three functions
parameters(fn) ==
    CASE fn = "Hellinger_2009" -> {"T", "n_i", "ions", "par_speeds", "method"}
      [] fn = "Hellinger_2010" ->
            {"T_par", "T_perp", "n_i", "ions", "par_speeds", "method"}
      [] fn = "Hellinger_2016" ->
            {"T_par", "T_perp", "n_i", "ions", "par_speeds", "perp_speeds",
             "method"}

\* a value for a key that the dictionary does not hold
Absent == HScalar("absent", 0)

\* the pairs over S in which at least one of the two values is v
PairsWith(T, v) == {pr \in T \X T : pr[1] = v \/ pr[2] = v}

\* inputs dictionaries with the keys of each function's parameters
Inputs2009 ==
    {[keys |-> parameters("Hellinger_2009"),
      vals |-> [T |-> t, T_par |-> Absent, T_perp |-> Absent, n_i |-> n,
                ions |-> il, par_speeds |-> ps, perp_speeds |-> Absent,
                method |-> m]] :
        t \in TempArgs, n \in DensityArgs, il \in PairArgs,
        ps \in SpeedArgs, m \in MethodArgs}

Inputs2010 ==
    {[keys |-> parameters("Hellinger_2010"),
      vals |-> [T |-> Absent, T_par |-> tp[1], T_perp |-> tp[2], n_i |-> n,
                ions |-> il, par_speeds |-> ps, perp_speeds |-> Absent,
                method |-> m]] :
        tp \in PairsWith(TempArgs, HScalar("K", 1)), n \in DensityArgs,
        il \in PairArgs, ps \in SpeedArgs, m \in MethodArgs}

Inputs2016 ==
    {[keys |-> parameters("Hellinger_2016"),
      vals |-> [T |-> Absent, T_par |-> tp[1], T_perp |-> tp[2], n_i |-> n,
                ions |-> il, par_speeds |-> ps[1], perp_speeds |-> ps[2],
                method |-> m]] :
        tp \in PairsWith(TempArgs, HScalar("K", 1)), n \in DensityArgs,
        il \in PairArgs, ps \in PairsWith(SpeedArgs, HArray("m/s", <<1, 2>>)),
        m \in MethodArgs}

InputsArgs == Inputs2009 \cup Inputs2010 \cup Inputs2016

\* the stix variables while no call of stix is in progress
StixIdle ==
    /\ args = [B |-> Scalar("T", 1), w |-> Scalar("rad/s", 1),
               ions |-> [list |-> FALSE, items |-> <<"p+">>],
               n_i |-> Scalar("m-3", 1), theta |-> Scalar("deg", 0)]
    /\ pc = "idle"
    /\ StixStart
    /\ previous = NoPrevious

InitH ==
    /\ StixIdle
    /\ h_version \in VersionArgs
    /\ h_inputs \in InputsArgs
    /\ h_stack = <<>>
    /\ h_pc = "Hellinger"
    /\ h_called = <<>>
    /\ h_validated = <<>>
    /\ h_err = NoException
    /\ h_ret = [returned |-> FALSE, value |-> "None"]


(***************************************************************************)
(* Hellinger: the dispatch on version.                                     *)
(***************************************************************************)
valid_versions == <<2009, 2010, 2016>>
\* a faulty list of functions, not in the order of valid_versions
valid_functions_misordered ==
    <<"Hellinger_2009", "Hellinger_2016", "Hellinger_2010">>
valid_functions == <<"Hellinger_2009", "Hellinger_2010", "Hellinger_2016">>

\* isinstance(version, (float, int)); bool is a subclass of int
is_float_or_int(v) == v.type \in {"float", "int", "bool"}

\* version in valid_versions: == on numbers, so 2016.0 is in the list
in_valid_versions(v) ==
    \E j \in 1..Len(valid_versions) : RInt(valid_versions[j]) = v.value

\* valid_versions.index(version), counted from 1
index_of_version(v) ==
    SetMin({j \in 1..Len(valid_versions) : RInt(valid_versions[j]) = v.value})

Frame(fn, locals) == [fn |-> fn, step |-> 1, locals |-> locals]

HRaise(e) ==
    /\ h_pc' = "raised"
    /\ h_err' = e
    /\ h_stack' = <<>>
    /\ UNCHANGED h_ret

Hellinger ==
    /\ h_pc = "Hellinger"
    /\ IF ~is_float_or_int(h_version)
       THEN /\ HRaise(Exception("TypeError", "type", "version"))
            /\ UNCHANGED h_called
       ELSE IF ~in_valid_versions(h_version)
       THEN /\ HRaise(Exception("ValueError", "value", "version"))
            /\ UNCHANGED h_called
       ELSE LET fn == valid_functions[index_of_version(h_version)]
            IN  /\ h_called' = Append(h_called, [fn |-> fn, caller |-> "Hellinger"])
                /\ IF h_inputs.keys # parameters(fn)
                   THEN \* fn(**inputs): a missing or unexpected keyword
                        HRaise(Exception("TypeError", "keywords", "inputs"))
                   ELSE \* the frame of fn binds its parameters
                        /\ h_stack' = <<Frame(fn, [key \in parameters(fn) |->
                                                      h_inputs.vals[key]])>>
                        /\ h_pc' = "running"
                        /\ UNCHANGED <<h_err, h_ret>>
    /\ UNCHANGED <<h_version, h_inputs, h_validated>>
    /\ UNCHANGED stix_vars

(***************************************************************************)
(* class validate                                                          *)
(***************************************************************************)
HAnyNegative(q) == \E j \in 1..Len(q.data) : RSign(q.data[j]) = -1

\* isinstance(q.value, (int, float)): the value of a 0-d Quantity is a
\* numpy scalar, and of the numpy scalar types only float64 is a float
value_is_int_or_float(q) == q.dtype = "float64"

\* validate.temp, with its validate_quantities decorator
validate_temp_error(T) ==
    IF HAnyNegative(T) THEN Exception("ValueError", "sign", "T")
    ELSE IF T.shape # <<>> THEN Exception("ValueError", "shape", "T")
    ELSE IF ~value_is_int_or_float(T)
    THEN Exception("TypeError", "value_type", "T")
    ELSE IF ~(RSign(T.data[1]) = 1) THEN Exception("ValueError", "sign", "T")
    ELSE NoException

\* validate.n_i
validate_n_i_error(q) ==
    IF q.unit = "none" THEN Exception("TypeError", "type", "n_i")
    ELSE IF ndim(squeeze(q)) # 0 THEN Exception("ValueError", "shape", "n_i")
    ELSE IF ~value_is_int_or_float(squeeze(q))
    THEN Exception("TypeError", "value_type", "n_i")
    ELSE IF ~(RSign(q.data[1]) = 1) THEN Exception("ValueError", "sign", "n_i")
    ELSE NoException

\* a faulty test that takes positively charged ions only, as stix does
charged_ion_positive(ion) == is_ion(ion) /\ charge_number(ion) > 0

\* ion.is_ion and abs(ion.charge_number) > 0
charged_ion(ion) == is_ion(ion) /\ Abs(charge_number(ion)) > 0

\* validate.ions
validate_ions_error(x) ==
    IF ~(\A j \in 1..Len(x.items) : charged_ion(x.items[j]))
    THEN Exception("ValueError", "species", "ions")
    ELSE IF Len(x.items) # 2
    THEN Exception("ValueError", "species", "len(ions)")
    ELSE NoException

\* validate.speeds: len(speeds) is the length of the first axis, and a
\* 0-d value has no len()
validate_speeds_error(q) ==
    IF ndim(q) = 0 THEN Exception("TypeError", "len", "speeds")
    ELSE IF q.shape[1] # 2 THEN Exception("ValueError", "shape", "speeds")
    ELSE NoException

\* isinstance(obj, cls) raises TypeError unless cls is a type (or a tuple of
\* types); None is not a type
isinstance_raises(cls) == cls \notin {"str", "int", "float", "Quantity"}

\* validate.method: its first test is isinstance(method, None)
validate_method_error(m) ==
    IF isinstance_raises("None")
    THEN Exception("TypeError", "isinstance", "method")
    ELSE IF m.type # "str"
    THEN Exception("TypeError", "type", "method")
    ELSE NoException

\* the validators each function applies, in source order: <<validator, local>>
validators(fn) ==
    CASE fn = "Hellinger_2009" ->
            <<<<"temp", "T">>, <<"n_i", "n_i">>, <<"ions", "ions">>,
              <<"speeds", "par_speeds">>, <<"method", "method">>>>
      [] fn = "Hellinger_2010" ->
            <<<<"temp", "T_par">>, <<"temp", "T_perp">>, <<"n_i", "n_i">>,
              <<"ions", "ions">>, <<"speeds", "par_speeds">>>>
      [] fn = "Hellinger_2016" ->
            <<<<"temp", "T_par">>, <<"temp", "T_perp">>, <<"n_i", "n_i">>,
              <<"ions", "ions">>, <<"speeds", "par_speeds">>,
              <<"speeds", "perp_speeds">>, <<"method", "method">>>>

Top == h_stack[Len(h_stack)]

\* the running function is about to call validate.<name>
AtValidator(name) ==
    /\ h_pc = "running"
    /\ Top.step <= Len(validators(Top.fn))
    /\ validators(Top.fn)[Top.step][1] = name

NextArg == validators(Top.fn)[Top.step][2]

\* the validator raised e (e # NoException) or returned value, which is
\* assigned to the local it was called on: the exception goes up to the
\* caller of Hellinger, a return moves to the next statement
AfterValidator(name, e, value) ==
    /\ h_validated' = Append(h_validated,
                             [fn |-> Top.fn, validator |-> name, arg |-> NextArg])
    /\ IF e # NoException
       THEN HRaise(e)
       ELSE /\ h_stack' = [h_stack EXCEPT
                              ![Len(h_stack)].step = @ + 1,
                              ![Len(h_stack)].locals[NextArg] = value]
            /\ UNCHANGED <<h_pc, h_err, h_ret>>
    /\ UNCHANGED <<h_version, h_inputs, h_called>>
    /\ UNCHANGED stix_vars

validate_temp ==
    /\ AtValidator("temp")
    /\ AfterValidator("temp", validate_temp_error(Top.locals[NextArg]),
                      Top.locals[NextArg])

validate_n_i ==
    /\ AtValidator("n_i")
    /\ AfterValidator("n_i", validate_n_i_error(Top.locals[NextArg]),
                      squeeze(Top.locals[NextArg]))

validate_ions ==
    /\ AtValidator("ions")
    /\ AfterValidator("ions", validate_ions_error(Top.locals[NextArg]),
                      ParticleList(Top.locals[NextArg]))

validate_speeds ==
    /\ AtValidator("speeds")
    /\ AfterValidator("speeds", validate_speeds_error(Top.locals[NextArg]),
                      Top.locals[NextArg])

\* The value of a timescale formula; the model does not evaluate it.
Timescale == [returned |-> TRUE, value |-> "timescale"]

\* validate.method is the last validator of Hellinger_2009 and of
\* Hellinger_2016.  Were it to return, Hellinger_2009 would evaluate its
\* formula and return (through Hellinger_2010 when that is the caller), and
\* Hellinger_2016 would go on to index the scalar T_perp.
validate_method ==
    /\ AtValidator("method")
    /\ h_validated' = Append(h_validated,
                             [fn |-> Top.fn, validator |-> "method",
                              arg |-> NextArg])
    /\ IF validate_method_error(Top.locals[NextArg]) # NoException
       THEN HRaise(validate_method_error(Top.locals[NextArg]))
       ELSE IF Top.fn = "Hellinger_2016"
       THEN HRaise(Exception("TypeError", "index", "T_perp"))
       ELSE /\ h_ret' = Timescale
            /\ h_pc' = "done"
            /\ h_stack' = <<>>
            /\ UNCHANGED h_err
    /\ UNCHANGED <<h_version, h_inputs, h_called>>
    /\ UNCHANGED stix_vars

\* Hellinger_2010 after its validators: the test of T_par, the mean
\* temperature T = (2 * T_perp + T_par) / 3, which becomes a local of
\* Hellinger_2010, and the call Hellinger_2009(T, n_i, ions, par_speeds,
\* method), whose frame binds the five parameters of Hellinger_2009
mean_temperature(T_par, T_perp) ==
    [T_par EXCEPT !.data =
        <<RDiv(RAdd(RMul(RInt(2), T_perp.data[1]), T_par.data[1]), RInt(3))>>]

Hellinger_2010_call ==
    /\ h_pc = "running"
    /\ Top.fn = "Hellinger_2010"
    /\ Top.step > Len(validators(Top.fn))
    /\ IF RIsZero(Top.locals.T_par.data[1])
       THEN /\ HRaise(Exception("ValueError", "value", "T_par"))
            /\ UNCHANGED h_called
       ELSE /\ h_called' = Append(h_called, [fn |-> "Hellinger_2009",
                                             caller |-> "Hellinger_2010"])
            /\ LET T == mean_temperature(Top.locals.T_par, Top.locals.T_perp)
                    bound == [key \in DOMAIN Top.locals \cup {"T"} |->
                                 IF key = "T" THEN T ELSE Top.locals[key]]
                IN  h_stack' =
                        Append([h_stack EXCEPT ![Len(h_stack)].locals = bound],
                               Frame("Hellinger_2009",
                                     [key \in parameters("Hellinger_2009") |->
                                         bound[key]]))
            /\ UNCHANGED <<h_pc, h_err, h_ret>>
    /\ UNCHANGED <<h_version, h_inputs, h_validated>>
    /\ UNCHANGED stix_vars

NextH ==
    \/ Hellinger
    \/ validate_temp
    \/ validate_n_i
    \/ validate_ions
    \/ validate_speeds
    \/ validate_method
    \/ Hellinger_2010_call

SpecH == InitH /\ [][NextH]_vars

(***************************************************************************)
(*                       Properties of Hellinger                           *)
(***************************************************************************)
HTerminated == h_pc \in {"done", "raised"}

\* int or float; a bool is an int
IsNumber(v) == v.type \in {"int", "float", "bool"}

SupportedVersions == {RInt(2009), RInt(2010), RInt(2016)}

MatchingFunction(v) ==
    CASE v.value = RInt(2009) -> "Hellinger_2009"
      [] v.value = RInt(2010) -> "Hellinger_2010"
      [] v.value = RInt(2016) -> "Hellinger_2016"

\* the documented constraints on one argument
ValidArgument(key, x) ==
    CASE key \in {"T", "T_par", "T_perp"} ->
            x.unit = "K" /\ x.shape = <<>> /\ RSign(x.data[1]) = 1
      [] key = "n_i" ->
            x.unit = "m-3" /\ x.shape = <<>> /\ RSign(x.data[1]) = 1
      [] key = "ions" ->
            /\ Len(x.items) = 2
            /\ \A j \in 1..2 :
                  is_ion(x.items[j]) /\ charge_number(x.items[j]) # 0
      [] key \in {"par_speeds", "perp_speeds"} ->
            x.unit = "m/s" /\ x.shape = <<2>>
      [] key = "method" -> x.type = "str"

ValidInputs ==
    /\ IsNumber(h_version) /\ h_version.value \in SupportedVersions
    /\ h_inputs.keys = parameters(MatchingFunction(h_version))
    /\ \A key \in h_inputs.keys : ValidArgument(key, h_inputs.vals[key])

\* C6: for a supported version and inputs that satisfy the documented
\* constraints, Hellinger ends by returning a timescale and not by raising.
C6_HellingerReturns ==
    (HTerminated /\ ValidInputs) => h_pc = "done" /\ h_ret.returned

CalledByHellinger == SelectSeq(h_called, LAMBDA c : c.caller = "Hellinger")

\* C7: Hellinger raises TypeError when version is not an int or float and
\* ValueError when it is a number other than 2009, 2010, 2016, in both
\* cases without calling any of the three functions; otherwise it calls
\* exactly the function matching the version, with the inputs.
C7_VersionDispatch ==
    h_pc \in {"running", "done", "raised"} =>
        IF ~IsNumber(h_version)
        THEN /\ h_pc = "raised"
             /\ h_err = Exception("TypeError", "type", "version")
             /\ h_called = <<>>
        ELSE IF h_version.value \notin SupportedVersions
        THEN /\ h_pc = "raised"
             /\ h_err = Exception("ValueError", "value", "version")
             /\ h_called = <<>>
        ELSE /\ CalledByHellinger =
                   <<[fn |-> MatchingFunction(h_version), caller |-> "Hellinger"]>>
             /\ h_err.arg # "version"
             /\ h_stack # <<>> =>
                   /\ h_stack[1].fn = MatchingFunction(h_version)
                   /\ parameters(h_stack[1].fn) \subseteq DOMAIN h_stack[1].locals
                   /\ \A key \in parameters(h_stack[1].fn) \ {"n_i", "ions"} :
                         h_stack[1].locals[key] = h_inputs.vals[key]

\* the float 2016.0 has selected Hellinger_2016, which is running
C7_Witness ==
    /\ h_pc = "running"
    /\ h_version = Version("float", RInt(2016))
    /\ h_called = <<[fn |-> "Hellinger_2016", caller |-> "Hellinger"]>>
    /\ h_stack[1].fn = "Hellinger_2016"

\* the species pair the documentation asks for: exactly two charged ions
ChargedPair(x) ==
    /\ Len(x.items) = 2
    /\ \A j \in 1..Len(x.items) :
          is_ion(x.items[j]) /\ charge_number(x.items[j]) # 0

InvalidSpeciesError(e) == e.cls = "ValueError" /\ e.kind = "species"

\* the place of validate.ions among the validators of a function
IonsStep(fn) ==
    CHOOSE j \in 1..Len(validators(fn)) : validators(fn)[j][1] = "ions"

IonsValidatedBy(fn) ==
    \E m \in 1..Len(h_validated) :
        h_validated[m].fn = fn /\ h_validated[m].validator = "ions"

\* C12: when validate.ions has run, it has raised the invalid-species error
\* if some species is not a charged ion or the species are not exactly two,
\* and has returned the same pair otherwise; Hellinger_2009, Hellinger_2010
\* and Hellinger_2016 each apply it before any of their formula terms.
C12_SpeciesValidator ==
    /\ \A m \in 1..Len(h_validated) :
          h_validated[m].validator = "ions" =>
              IF ChargedPair(h_inputs.vals.ions)
              THEN ~InvalidSpeciesError(h_err)
              ELSE /\ m = Len(h_validated)
                   /\ h_pc = "raised"
                   /\ InvalidSpeciesError(h_err)
    /\ InvalidSpeciesError(h_err) =>
          h_validated[Len(h_validated)].validator = "ions"
    /\ \A f \in 1..Len(h_stack) :
          h_stack[f].step > IonsStep(h_stack[f].fn) =>
              /\ IonsValidatedBy(h_stack[f].fn)
              /\ h_stack[f].locals.ions.list
              /\ h_stack[f].locals.ions.items = h_inputs.vals.ions.items
    /\ \A m \in 1..Len(h_called) :
          h_called[m].caller # "Hellinger" => IonsValidatedBy(h_called[m].caller)
    /\ h_err = Exception("ValueError", "value", "T_par") =>
          IonsValidatedBy("Hellinger_2010")
    /\ h_err = Exception("TypeError", "index", "T_perp") =>
          IonsValidatedBy("Hellinger_2016")
    /\ h_ret.returned => IonsValidatedBy("Hellinger_2009")

\* Hellinger_2016 has accepted a pair with a negative ion and goes on
C12_Witness ==
    /\ h_pc = "running"
    /\ h_stack[1].fn = "Hellinger_2016"
    /\ h_stack[1].step = IonsStep("Hellinger_2016") + 1
    /\ h_inputs.vals.ions.items = <<"H 1-", "p+">>
    /\ IonsValidatedBy("Hellinger_2016")


====
